---------------------------- MODULE Spec2Model ----------------------------
(***************************************************************************)
(* A model of picca's 1D power spectrum driver (bin/picca_Pk1D.py): the    *)
(* binning classifier check_linear_binning, the per-spectrum function      *)
(* process_file and the file loop of main; and of the DLA masker of        *)
(* delta_extraction (mask.py, masks/dla_mask.py).                          *)
(*                                                                         *)
(* Four specifications share the variables: Spec is the run of main over   *)
(* its input files; SpecBinning is the classification of the first         *)
(* spectrum read, for any pixels of any grid; SpecProcess is one call of   *)
(* process_file, for any pixels, masks and options; SpecMask is the        *)
(* construction of a DlaMask and its application to a forest.              *)
(*                                                                         *)
(* Numbers.  The program computes in floating point; the model computes in *)
(* fixed point.  A log-wavelength is an integer count of 1e-9, a           *)
(* wavelength an integer count of 1e-7 Angstrom.  10**x is the table Pow10 *)
(* of the true values of 10**x (rounded to 1e-7 Angstrom) at the           *)
(* log-wavelengths of the model's pixel grids.  A percentile is carried    *)
(* multiplied by 20 and a median multiplied by 2, which keeps numpy's      *)
(* linear interpolation exact in integers.                                 *)
(***************************************************************************)
EXTENDS Integers, Sequences, FiniteSets, TLC

VARIABLES
    args,              \* the parsed command line options (main, line 188)
    pc,                \* where main stands
    file_index,        \* index of the input file being handled (line 206)
    num_data,          \* the number of spectra read so far (lines 196, 255)
    deltas,            \* the spectra read from the current file (lines 213-220)
    linear_binning,    \* binning flag of the run (line 225), FALSE before
    delta_lam,         \* 2 * bin width of the run (line 225), 0 before
    reso_correction,   \* "Gaussian" | "matrix" (lines 235-244), "unset" before
    tasks,             \* per spectrum of the file: what process_file did
    order,             \* the spectra of the file processed so far, in order
    pk_list_of_lists,  \* the gathered results of the file (lines 434, 437)
    cursor,            \* write loop position: <<spectrum, record>> (lines 441, 444)
    results,           \* output handle of the file: "None" | "open" | "closed"
    opens,             \* the indices of the output files created, in order
    out_files,         \* per file index: the records written to Pk1D-<index>
    error,             \* "" or the exception that ended the run
    dla_config,        \* the section of options the DlaMask is constructed from
    dla_mask,          \* the DlaMask instance, NoMask when there is none
    the_forest,        \* the Forest handed to the masker, NoForest before
    profiles,          \* per absorber and pixel: the value of dla_profile
    mask_call          \* the last call on the masker and what it did

mainVars == <<args, pc, file_index, num_data, deltas, linear_binning, delta_lam,
              reso_correction, tasks, order, pk_list_of_lists, cursor, results,
              opens, out_files, error>>

maskVars == <<dla_config, dla_mask, the_forest, profiles, mask_call>>

vars == <<mainVars, maskVars>>

-----------------------------------------------------------------------------
(* Bounds of the model. *)

\* pixels per pixel grid: a spectrum holds at most GridLen pixels
GridLen == 4
\* spectra read in one run, over all its input files
MaxSpectra == 2

-----------------------------------------------------------------------------
(* Fixed point arithmetic. *)

\* 10**x at the log-wavelengths the pixel grids use: x in 1e-9, value in 1e-7 AA
Pow10Table ==
    (1000000000 :> 100000000) @@
    (1000010000 :> 100002303) @@
    (1000020000 :> 100004605) @@
    (1000030000 :> 100006908) @@
    (1000040000 :> 100009211) @@
    (1000050000 :> 100011514) @@
    (1000060000 :> 100013816) @@
    (1000070000 :> 100016119) @@
    (1000867722 :> 100200000) @@
    (1001000000 :> 100230524) @@
    (1001300933 :> 100300000) @@
    (1001733713 :> 100400000) @@
    (1002000000 :> 100461579) @@
    (1002597981 :> 100600000) @@
    (1003000000 :> 100693167) @@
    (1003460532 :> 100800000) @@
    (1003891166 :> 100900000) @@
    (1004000000 :> 100925289) @@
    (1004321374 :> 101000000) @@
    (1005000000 :> 101157945) @@
    (1005180513 :> 101200000) @@
    (1006000000 :> 101391139) @@
    (1006037955 :> 101400000) @@
    (1006466042 :> 101500000) @@
    (1007000000 :> 101624869) @@
    (1007747778 :> 101800000) @@
    (1008000000 :> 101859139) @@
    (1009025742 :> 102100000) @@
    (1010000000 :> 102329299) @@
    (1012000000 :> 102801630) @@
    (1014000000 :> 103276141) @@
    (1020000000 :> 104712855) @@
    (1040000000 :> 109647820) @@
    (1060000000 :> 114815362) @@
    (1080000000 :> 120226443) @@
    (1100000000 :> 125892541) @@
    (1120000000 :> 131825674) @@
    (1140000000 :> 138038426)

Pow10(x) == Pow10Table[x]

\* the pixel grids: the log-wavelengths of the first eight pixels of each.
\* LinA, LinB: uniform in wavelength (10 AA + i * 0.02 AA, + i * 0.03 AA);
\* LogA, LogB, LogTiny, LogWide: uniform in log-wavelength
\* (spacing 1e-3, 2e-3, 1e-5 and 0.02)
PixelGrid ==
    [LinA    |-> <<1000000000, 1000867722, 1001733713, 1002597981, 1003460532, 1004321374, 1005180513, 1006037955>>,
     LinB    |-> <<1000000000, 1001300933, 1002597981, 1003891166, 1005180513, 1006466042, 1007747778, 1009025742>>,
     LogA    |-> <<1000000000, 1001000000, 1002000000, 1003000000, 1004000000, 1005000000, 1006000000, 1007000000>>,
     LogB    |-> <<1000000000, 1002000000, 1004000000, 1006000000, 1008000000, 1010000000, 1012000000, 1014000000>>,
     LogTiny |-> <<1000000000, 1000010000, 1000020000, 1000030000, 1000040000, 1000050000, 1000060000, 1000070000>>,
     LogWide |-> <<1000000000, 1020000000, 1040000000, 1060000000, 1080000000, 1100000000, 1120000000, 1140000000>>]

Families == {"LinA", "LinB", "LogA", "LogB", "LogTiny", "LogWide"}

-----------------------------------------------------------------------------
(* numpy on integer sequences. *)

RECURSIVE Insert(_, _)
Insert(x, s) ==
    IF s = <<>> THEN <<x>>
    ELSE IF x <= Head(s) THEN <<x>> \o s
    ELSE <<Head(s)>> \o Insert(x, Tail(s))

RECURSIVE Sort(_)
Sort(s) == IF s = <<>> THEN <<>> ELSE Insert(Head(s), Sort(Tail(s)))

RECURSIVE SeqOfSet(_)
SeqOfSet(S) ==
    IF S = {} THEN <<>>
    ELSE LET m == CHOOSE x \in S : \A y \in S : x <= y
         IN <<m>> \o SeqOfSet(S \ {m})

RECURSIVE Sum(_)
Sum(s) == IF s = <<>> THEN 0 ELSE Head(s) + Sum(Tail(s))

\* a[selection] for a boolean array selection
RECURSIVE BoolIndex(_, _)
BoolIndex(a, selection) ==
    IF a = <<>> THEN <<>>
    ELSE (IF Head(selection) THEN <<Head(a)>> ELSE <<>>)
             \o BoolIndex(Tail(a), Tail(selection))

\* np.diff(a)
np_diff(a) == [i \in 1..(Len(a) - 1) |-> a[i + 1] - a[i]]

\* 20 * np.percentile(a, q) for q = 5 or q = 25 and a not empty: numpy sorts a,
\* takes the position q / 100 * (len - 1) and interpolates linearly between
\* the two neighbours
np_percentile(a, q) ==
    LET s   == Sort(a)
        pos == (q \div 5) * (Len(s) - 1)
        j   == pos \div 20
        r   == pos % 20
    IN  20 * s[j + 1] + (IF r = 0 THEN 0 ELSE r * (s[j + 2] - s[j + 1]))

\* 2 * np.median(a) for a not empty
np_median(a) ==
    LET s == Sort(a)
        m == Len(s)
    IN  IF m % 2 = 1 THEN 2 * s[(m + 1) \div 2]
        ELSE s[m \div 2] + s[m \div 2 + 1]

-----------------------------------------------------------------------------
(* check_linear_binning (lines 21-56). *)

\* 1e-6 Angstrom, the tolerance of line 39, in 1e-7 Angstrom
GapTolLambda == 10
\* 1e-6, the tolerance of line 43, in 1e-9
GapTolLogLambda == 1000
\* 0.01, the limit of lines 43 and 47, in 1e-9
MaxLogStep == 10000000

\* the branches with the limit of the log step at 0.001
BinningBranch_low_limit(q5_lambda, q25_lambda, q5_log_lambda, q25_log_lambda) ==
    IF (q25_lambda - q5_lambda) < 20 * GapTolLambda THEN 1
    ELSE IF /\ (q25_log_lambda - q5_log_lambda) < 20 * GapTolLogLambda
            /\ q5_log_lambda < 2 * MaxLogStep
         THEN 2
    ELSE IF q5_log_lambda >= 2 * MaxLogStep THEN 3
    ELSE 4

\* the branches with the test of the log differences tried first
BinningBranch_log_first(q5_lambda, q25_lambda, q5_log_lambda, q25_log_lambda) ==
    IF /\ (q25_log_lambda - q5_log_lambda) < 20 * GapTolLogLambda
       /\ q5_log_lambda < 20 * MaxLogStep
    THEN 2
    ELSE IF (q25_lambda - q5_lambda) < 20 * GapTolLambda THEN 1
    ELSE IF q5_log_lambda >= 20 * MaxLogStep THEN 3
    ELSE 4

\* the first branch of lines 39-54 that applies, given the 20-fold percentiles
BinningBranch(q5_lambda, q25_lambda, q5_log_lambda, q25_log_lambda) ==
    IF (q25_lambda - q5_lambda) < 20 * GapTolLambda THEN 1
    ELSE IF /\ (q25_log_lambda - q5_log_lambda) < 20 * GapTolLogLambda
            /\ q5_log_lambda < 20 * MaxLogStep
         THEN 2
    ELSE IF q5_log_lambda >= 20 * MaxLogStep THEN 3
    ELSE 4

\* lines 39-56: what the branch returns or raises; delta_lam is 2 * the
\* median difference
BinningResult(branch, diff_lambda, diff_log_lambda) ==
    IF branch = 1
    THEN [raised |-> "", branch |-> 1, linear_binning |-> TRUE,
          delta_lam |-> np_median(diff_lambda)]
    ELSE IF branch = 2
    THEN [raised |-> "", branch |-> 2, linear_binning |-> FALSE,
          delta_lam |-> np_median(diff_log_lambda)]
    ELSE [raised |-> "ValueError", branch |-> branch,
          linear_binning |-> FALSE, delta_lam |-> 0]

\* lines 37-54 on the two arrays of differences
ClassifyDiffs(diff_lambda, diff_log_lambda) ==
    BinningResult(BinningBranch(np_percentile(diff_lambda, 5),
                                np_percentile(diff_lambda, 25),
                                np_percentile(diff_log_lambda, 5),
                                np_percentile(diff_log_lambda, 25)),
                  diff_lambda, diff_log_lambda)

\* 10**log_lambda, elementwise
Lambda(log_lambda) == [i \in 1..Len(log_lambda) |-> Pow10(log_lambda[i])]

\* The value returned, or the exception raised, for a spectrum with the given
\* log_lambda array.  With fewer than two pixels the differences are empty,
\* every percentile is nan, no comparison holds and the last branch raises.
check_linear_binning(log_lambda) ==
    IF Len(log_lambda) < 2
    THEN [raised |-> "ValueError", branch |-> 4,
          linear_binning |-> FALSE, delta_lam |-> 0]
    ELSE ClassifyDiffs(np_diff(Lambda(log_lambda)), np_diff(log_lambda))

-----------------------------------------------------------------------------
(* Rational numbers, for the divisions and means of process_file.  A value *)
(* is [num, den] in lowest terms with den > 0; nan is [num |-> 0, den |-> 0]. *)

RECURSIVE Gcd(_, _)
Gcd(a, b) == IF b = 0 THEN a ELSE Gcd(b, a % b)

Abs(x) == IF x < 0 THEN -x ELSE x

NaN == [num |-> 0, den |-> 0]

\* n / d; division by zero or by nan gives nan (numpy: nan, with a warning)
Rat(n, d) ==
    IF d = 0 THEN NaN
    ELSE LET g == Gcd(Abs(n), Abs(d))
             s == IF d < 0 THEN -1 ELSE 1
         IN  [num |-> s * (n \div g), den |-> s * (d \div g)]

IsNaN(x) == x.den = 0

RatSub(x, y) ==
    IF IsNaN(x) \/ IsNaN(y) THEN NaN
    ELSE Rat(x.num * y.den - y.num * x.den, x.den * y.den)

RatMul(x, y) ==
    IF IsNaN(x) \/ IsNaN(y) THEN NaN ELSE Rat(x.num * y.num, x.den * y.den)

RatDiv(x, y) ==
    IF IsNaN(x) \/ IsNaN(y) THEN NaN ELSE Rat(x.num * y.den, x.den * y.num)

\* x < y and x > y for rationals; every comparison with nan is false
RatLess(x, y) == ~IsNaN(x) /\ ~IsNaN(y) /\ x.num * y.den < y.num * x.den

\* np.mean(a) of a sequence of integers; nan for an empty sequence
np_mean(a) == Rat(Sum(a), Len(a))

-----------------------------------------------------------------------------
(* The spectra (Delta objects) and the options. *)

\* A Delta as process_file and main read it: log_lambda and ivar per pixel,
\* mean_snr, mean_reso, resolution_matrix ("None" or "R") and fiberid, which
\* stands for the metadata written to the header (ra, dec, z_qso, plate,
\* mjd, fiberid).  delta and exposures_diff are carried by the segmenter, the
\* filler and the estimators only and are not represented.
Delta(family, pixels, ivar, mean_snr, mean_reso, resolution_matrix, fiberid) ==
    [log_lambda        |-> [i \in 1..Len(pixels) |-> PixelGrid[family][pixels[i]]],
     ivar              |-> ivar,
     mean_snr          |-> mean_snr,
     mean_reso         |-> mean_reso,
     resolution_matrix |-> resolution_matrix,
     fiberid           |-> fiberid]

\* the five noise estimates process_file handles (lines 411-422)
NoiseEstimates == {"pipeline", "diff", "mean_diff", "rebin_diff", "mean_rebin_diff"}

-----------------------------------------------------------------------------
(* The collaborators of process_file that live in picca.pk1d and           *)
(* picca.constants: modelled from their description in the specification.  *)

Min(x, y) == IF x <= y THEN x ELSE y

\* The segmenter.  The pixels from first_pixel_index on are tiled by
\* num_parts contiguous segments whose sizes differ by at most one, the
\* longer ones first.  It returns five per-segment outputs, and a sixth (the
\* resolution matrix slices) when a resolution matrix is passed.  The
\* midpoint of a segment's coordinates stands for its mean redshift.
split_forest(num_parts, coords, ivar, first_pixel_index, reso_matrix) ==
    LET m        == Len(coords) - first_pixel_index
        base     == m \div num_parts
        extra    == m % num_parts
        start(p) == first_pixel_index + (p - 1) * base + Min(p - 1, extra)
        size(p)  == base + (IF p <= extra THEN 1 ELSE 0)
        slice(a, p) == SubSeq(a, start(p) + 1, start(p) + size(p))
    IN  [num_outputs  |-> IF reso_matrix = "None" THEN 5 ELSE 6,
         coord_array  |-> [p \in 1..num_parts |-> slice(coords, p)],
         ivar_array   |-> [p \in 1..num_parts |-> slice(ivar, p)],
         mean_z_array |-> [p \in 1..num_parts |->
                              (coords[start(p) + 1] + coords[start(p) + size(p)]) \div 2]]

\* The filler.  delta_pixel is 2 * the bin width.  Unless filling is
\* disabled the segment is laid on the complete uniform grid that spans its
\* coordinate range; a grid pixel with no input pixel, or with an input pixel
\* of ivar 0, has ivar 0.  The masked pixels are counted on the output.
fill_masked_pixels(delta_pixel, coords, ivar, no_apply_filling) ==
    IF no_apply_filling
    THEN [coord_new |-> coords, ivar_new |-> ivar,
          num_masked_pixels |-> Cardinality({i \in DOMAIN ivar : ivar[i] = 0})]
    ELSE
    LET index(i) == (2 * (coords[i] - coords[1]) + delta_pixel \div 2) \div delta_pixel
        n        == index(Len(coords)) + 1
        ivar_new == [j \in 1..n |->
                        IF \E i \in DOMAIN coords : index(i) = j - 1 /\ ivar[i] # 0
                        THEN 1 ELSE 0]
    IN  [coord_new |-> [j \in 1..n |-> coords[1] + ((j - 1) * delta_pixel) \div 2],
         ivar_new  |-> ivar_new,
         num_masked_pixels |-> Cardinality({j \in 1..n : ivar_new[j] = 0})]

\* What the power and resolution estimators return is drawn from a small
\* family of values: est.kstep is the wavenumber step in 1e-3 and est.amp
\* an amplitude.  Every array has one entry per pixel of the filled segment.
EstChoices == {[kstep |-> 2, amp |-> 1], [kstep |-> 15, amp |-> 3]}

\* wavenumber grid (in 1e-3) and raw power of a filled segment of n pixels
compute_pk_raw(n, est) ==
    [k      |-> [i \in 1..n |-> (i - 1) * est.kstep],
     pk_raw |-> [i \in 1..n |-> 20 + est.amp * i]]

\* Monte-Carlo noise power (zero unless run_noise) and difference power
compute_pk_noise(n, est, run_noise) ==
    [pk_noise |-> [i \in 1..n |-> IF run_noise THEN 2 + i ELSE 0],
     pk_diff  |-> [i \in 1..n |-> est.amp + 2 * i]]

\* Gaussian resolution correction: positive at every wavenumber
compute_correction_reso(n, est) == [i \in 1..n |-> est.amp + (i % 2)]

\* resolution correction from the resolution matrix: positive at every wavenumber
compute_correction_reso_matrix(n, est) == [i \in 1..n |-> 1 + est.amp + (i % 3)]

\* constants.speed_light / 1000, in km/s
SpeedLightKms == 299792

\* np.mean(lambda_new) in whole Angstrom (1 Angstrom = 10000000 units)
MeanLambda(lambda_new) ==
    LET offsets == [i \in 1..Len(lambda_new) |-> lambda_new[i] - lambda_new[1]]
    IN  (lambda_new[1] + Sum(offsets) \div Len(lambda_new)) \div 10000000

-----------------------------------------------------------------------------
(* process_file (lines 259-431).  run is what the closure reads from main: *)
(* [linear_binning, delta_lam, reso_correction].                           *)

\* 0.003 and 0.02, the band limits of lines 418-420, in 1e-3
KLo == 3
KHi == 20

\* the cuts with the two thresholds themselves accepted
fails_cuts_strict(delta, a) ==
    delta.mean_snr < a.SNR_min \/ delta.mean_reso > a.reso_max

\* lines 277-278: the cuts on the mean SNR and the mean resolution
fails_cuts(delta, a) ==
    delta.mean_snr <= a.SNR_min \/ delta.mean_reso >= a.reso_max

\* line 282: the pixels above lambda_obs_min
selected_pixels(delta, a) ==
    [i \in 1..Len(delta.log_lambda) |-> Pow10(delta.log_lambda[i]) > a.lambda_obs_min]

\* np.argmax of a boolean array with a True: the index, from 0, of the first
ArgMax(b) == (CHOOSE i \in DOMAIN b : b[i] /\ \A j \in 1..(i - 1) : ~b[j]) - 1

\* lines 285-287 on selected_pixels
FirstSelected(b) ==
    IF \E i \in DOMAIN b : b[i] THEN ArgMax(b) ELSE Len(b)

\* lines 282-287: index (from 0) of the first pixel above lambda_obs_min, or
\* the number of pixels when there is none
first_pixel_index(delta, a) == FirstSelected(selected_pixels(delta, a))

\* lines 290-292: too few pixels from pixel first on
too_short(delta, a, first) ==
    (Len(delta.log_lambda) - first) < a.nb_pixel_min

\* the number of parts counted on all the pixels of the spectrum
num_parts_all(delta, a, first) ==
    Min(a.nb_part, Len(delta.log_lambda) \div a.nb_pixel_min)

\* lines 295-297: the number of parts asked of split_forest
num_parts(delta, a, first) ==
    Min(a.nb_part, (Len(delta.log_lambda) - first) \div a.nb_pixel_min)

\* lines 298-321: the call of split_forest, on wavelengths when the binning
\* is linear and on log-wavelengths otherwise
SplitCall(delta, a, run, first, parts) ==
    split_forest(parts,
                 IF run.linear_binning THEN Lambda(delta.log_lambda)
                 ELSE delta.log_lambda,
                 delta.ivar,
                 first,
                 IF run.reso_correction = "matrix" THEN delta.resolution_matrix
                 ELSE "None")

\* lines 412, 415, 422: (pk_raw - noise) / correction_reso, elementwise
PowerOf(pk_raw, noise, correction_reso) ==
    [i \in 1..Len(pk_raw) |->
        RatDiv(RatSub(Rat(pk_raw[i], 1), noise[i]), Rat(correction_reso[i], 1))]

\* the mean of pk_diff over 0 < k < 0.02 for either mean estimate
mean_pk_diff_one_band(noise_estimate, k, pk_diff) ==
    np_mean(BoolIndex(pk_diff, [i \in 1..Len(k) |-> k[i] > 0 /\ k[i] < KHi]))

\* lines 418-421: the mean of pk_diff over the band of the noise estimate
mean_pk_diff(noise_estimate, k, pk_diff) ==
    np_mean(BoolIndex(pk_diff,
                      IF noise_estimate = "mean_rebin_diff"
                      THEN [i \in 1..Len(k) |-> k[i] > KLo /\ k[i] < KHi]
                      ELSE [i \in 1..Len(k) |-> k[i] > 0 /\ k[i] < KHi]))

\* lines 411-422: the noise term of each wavenumber; no branch applies to a
\* noise estimate outside the five, which leaves pk unbound
NoiseTerm(noise_estimate, k, pk_noise, pk_diff) ==
    IF noise_estimate = "pipeline"
    THEN [bound |-> TRUE, noise |-> [i \in 1..Len(k) |-> Rat(pk_noise[i], 1)]]
    ELSE IF noise_estimate = "diff" \/ noise_estimate = "rebin_diff"
    THEN [bound |-> TRUE, noise |-> [i \in 1..Len(k) |-> Rat(pk_diff[i], 1)]]
    ELSE IF noise_estimate = "mean_diff" \/ noise_estimate = "mean_rebin_diff"
    THEN [bound |-> TRUE,
          noise |-> [i \in 1..Len(k) |-> mean_pk_diff(noise_estimate, k, pk_diff)]]
    ELSE [bound |-> FALSE, noise |-> <<>>]

\* lines 424-426: the factor of the conversion to velocity units, 1 when
\* the conversion is not made
VelocityFactor(a, run, lambda_new) ==
    IF a.force_output_in_velocity /\ run.linear_binning
    THEN Rat(SpeedLightKms, MeanLambda(lambda_new))
    ELSE Rat(1, 1)

\* the segment is skipped at the maximum already
too_many_masked_at_max(num_masked_pixels, a) ==
    num_masked_pixels >= a.nb_pixel_masked_max

\* lines 353-354: the segment is skipped
too_many_masked(num_masked_pixels, a) == num_masked_pixels > a.nb_pixel_masked_max

\* line 368: the Monte-Carlo noise run is asked for
run_noise(a) == a.noise_estimate = "pipeline"

\* lines 327-328: the difference spectrum is rebinned
rebins(a) == a.noise_estimate = "rebin_diff" \/ a.noise_estimate = "mean_rebin_diff"

\* lines 384-408: the resolution correction that is called
reso_stage(run) ==
    IF run.linear_binning /\ run.reso_correction = "matrix"
    THEN "compute_correction_reso_matrix" ELSE "compute_correction_reso"

\* the entry of pk_list of a turn that appended none
NoRecord ==
    [k |-> <<>>, pk_raw |-> <<>>, pk_noise |-> <<>>, pk_diff |-> <<>>,
     correction_reso |-> <<>>, pk |-> <<>>, mean_z |-> 0,
     num_masked_pixels |-> 0, part_index |-> 0, fiberid |-> 0]

\* One turn of the loop over the parts as the model records it.  stages
\* lists the collaborators called, in call order; raised names the exception
\* that ends process_file in this turn, if any; pk_combine is pk as line 422
\* leaves it; record is the entry appended to pk_list (lines 427-430).
Turn(part_index, a, stages, num_masked_pixels, raised) ==
    [part_index |-> part_index, stages |-> stages,
     num_masked_pixels |-> num_masked_pixels, run_noise |-> run_noise(a),
     raised |-> raised, appended |-> FALSE,
     k |-> <<>>, pk_raw |-> <<>>, pk_noise |-> <<>>, pk_diff |-> <<>>,
     correction_reso |-> <<>>, pk_combine |-> <<>>, record |-> NoRecord]

\* the filler called before the rebinner
FillStages_fill_first(a) ==
    <<"fill_masked_pixels">> \o (IF rebins(a) THEN <<"rebin_diff_noise">> ELSE <<>>)

\* lines 326-352: the stages every turn goes through
FillStages(a) ==
    (IF rebins(a) THEN <<"rebin_diff_noise">> ELSE <<>>) \o <<"fill_masked_pixels">>

\* lines 356-408: the estimators, called in this order
PowerStages(run) == <<"compute_pk_raw", "compute_pk_noise", reso_stage(run)>>

\* lines 422-430: pk is bound, converted and appended
TurnAppend(delta, a, part_index, mean_z, filled, raw, noise, correction_reso, pk, factor, stages) ==
    [Turn(part_index, a, stages, filled.num_masked_pixels, "") EXCEPT
        !.k = raw.k, !.pk_raw = raw.pk_raw, !.pk_noise = noise.pk_noise,
        !.pk_diff = noise.pk_diff, !.correction_reso = correction_reso,
        !.pk_combine = pk,
        !.appended = TRUE,
        !.record = [k |-> [i \in 1..Len(raw.k) |-> RatDiv(Rat(raw.k[i], 1), factor)],
                    pk_raw |-> raw.pk_raw,
                    pk_noise |-> noise.pk_noise,
                    pk_diff |-> noise.pk_diff,
                    correction_reso |-> correction_reso,
                    pk |-> [i \in 1..Len(pk) |-> RatMul(pk[i], factor)],
                    mean_z |-> mean_z,
                    num_masked_pixels |-> filled.num_masked_pixels,
                    part_index |-> part_index,
                    fiberid |-> delta.fiberid]]

\* lines 410-430: the noise term is chosen; with none, the first use of pk
\* (line 425 or 428) raises
TurnCombine(delta, a, run, part_index, mean_z, filled, raw, noise, correction_reso, term) ==
    IF ~term.bound
    THEN Turn(part_index, a, FillStages(a) \o PowerStages(run),
              filled.num_masked_pixels, "UnboundLocalError")
    ELSE TurnAppend(delta, a, part_index, mean_z, filled, raw, noise,
                    correction_reso,
                    PowerOf(raw.pk_raw, term.noise, correction_reso),
                    VelocityFactor(a, run, filled.coord_new),
                    FillStages(a) \o PowerStages(run) \o <<"combine">>)

\* lines 356-408: raw power, noise power and resolution correction of a
\* segment that is kept.  The matrix correction is computed from
\* delta.resolution_matrix (line 388) and fails on a spectrum that has none.
TurnPower(delta, a, run, part_index, mean_z, filled, est) ==
    IF run.linear_binning /\ run.reso_correction = "matrix"
    THEN IF delta.resolution_matrix = "None"
         THEN Turn(part_index, a, FillStages(a) \o PowerStages(run),
                   filled.num_masked_pixels, "TypeError")
         ELSE TurnCombine(delta, a, run, part_index, mean_z, filled,
                          compute_pk_raw(Len(filled.coord_new), est),
                          compute_pk_noise(Len(filled.coord_new), est, run_noise(a)),
                          compute_correction_reso_matrix(Len(filled.coord_new), est),
                          NoiseTerm(a.noise_estimate,
                                    compute_pk_raw(Len(filled.coord_new), est).k,
                                    compute_pk_noise(Len(filled.coord_new), est, run_noise(a)).pk_noise,
                                    compute_pk_noise(Len(filled.coord_new), est, run_noise(a)).pk_diff))
    ELSE TurnCombine(delta, a, run, part_index, mean_z, filled,
                     compute_pk_raw(Len(filled.coord_new), est),
                     compute_pk_noise(Len(filled.coord_new), est, run_noise(a)),
                     compute_correction_reso(Len(filled.coord_new), est),
                     NoiseTerm(a.noise_estimate,
                               compute_pk_raw(Len(filled.coord_new), est).k,
                               compute_pk_noise(Len(filled.coord_new), est, run_noise(a)).pk_noise,
                               compute_pk_noise(Len(filled.coord_new), est, run_noise(a)).pk_diff))

\* lines 353-354: a segment with too many masked pixels is left by continue
TurnFilled(delta, a, run, part_index, mean_z, filled, est) ==
    IF too_many_masked(filled.num_masked_pixels, a)
    THEN Turn(part_index, a, FillStages(a), filled.num_masked_pixels, "")
    ELSE TurnPower(delta, a, run, part_index, mean_z, filled, est)

\* lines 325-430: one turn of the loop over the parts, for part part_index
\* (counted from 1)
PartRun(delta, a, run, split, part_index, est) ==
    TurnFilled(delta, a, run, part_index, split.mean_z_array[part_index],
               fill_masked_pixels(run.delta_lam, split.coord_array[part_index],
                                  split.ivar_array[part_index], a.no_apply_filling),
               est)

\* line 324: the loop over the parts from part_index on; it ends with the
\* last part or with the first turn that raises
RECURSIVE PartLoop(_, _, _, _, _, _)
PartLoop(delta, a, run, split, part_index, est) ==
    IF part_index > Len(split.coord_array) THEN <<>>
    ELSE LET turn == PartRun(delta, a, run, split, part_index, est[part_index])
         IN  IF turn.raised # "" THEN <<turn>>
             ELSE <<turn>> \o PartLoop(delta, a, run, split, part_index + 1, est)

\* What one call process_file(delta) did, as the model records it.
\* returned is "None", "list" or "raised"; segmented tells that split_forest
\* was called and num_parts what it was asked for; trace holds the turns of
\* the part loop and pk_list the value returned.
Outcome(delta, returned, raised, segmented, first, parts, trace, pk_list) ==
    [returned |-> returned, raised |-> raised, segmented |-> segmented,
     first_pixel_index |-> first, num_parts |-> parts, trace |-> trace,
     pk_list |-> pk_list, fiberid |-> delta.fiberid]

\* the records the turns appended
Appended(trace) ==
    LET kept == SelectSeq(trace, LAMBDA t : t.appended)
    IN  [i \in 1..Len(kept) |-> kept[i].record]

\* lines 323-431: the part loop and the return of pk_list
ProcessParts(delta, first, parts, trace) ==
    IF trace # <<>> /\ trace[Len(trace)].raised # ""
    THEN Outcome(delta, "raised", trace[Len(trace)].raised, TRUE, first, parts,
                 trace, <<>>)
    ELSE Outcome(delta, "list", "", TRUE, first, parts, trace, Appended(trace))

\* lines 298-321: split_forest is called and its value unpacked into five
\* names, which fails when it returns six
ProcessSplit(delta, a, run, est, first, parts, split) ==
    IF split.num_outputs # 5
    THEN Outcome(delta, "raised", "ValueError", TRUE, first, parts, <<>>, <<>>)
    ELSE ProcessParts(delta, first, parts, PartLoop(delta, a, run, split, 1, est))

\* lines 281-321: the first pixel is known
ProcessFrom(delta, a, run, est, first) ==
    IF too_short(delta, a, first)
    THEN Outcome(delta, "None", "", FALSE, first, 0, <<>>, <<>>)
    ELSE ProcessSplit(delta, a, run, est, first, num_parts(delta, a, first),
                      SplitCall(delta, a, run, first, num_parts(delta, a, first)))

\* lines 259-431: process_file(delta).  est gives, per part, the values the
\* estimators return.
process_file(delta, a, run, est) ==
    IF fails_cuts(delta, a)
    THEN Outcome(delta, "None", "", FALSE, 0, 0, <<>>, <<>>)
    ELSE ProcessFrom(delta, a, run, est, first_pixel_index(delta, a))

-----------------------------------------------------------------------------
(* main (lines 59-536): the loop over the input files. *)

\* lines 224-245: the binning of the run, from the first spectrum of the
\* first file
FirstBinning(delta, a, c) ==
        [raised          |-> c.raised,
         linear_binning  |-> c.linear_binning,
         delta_lam       |-> c.delta_lam,
         reso_correction |->
             IF c.raised # "" THEN "unset"
             ELSE IF c.linear_binning
             THEN (IF a.disable_reso_matrix \/ delta.resolution_matrix = "None"
                   THEN "Gaussian" ELSE "matrix")
             ELSE "Gaussian"]

\* the check of a later file on the binning flag alone
NextBinning_flag_only(run, c) ==
    IF c.raised # "" THEN c.raised
    ELSE IF c.linear_binning # run.linear_binning THEN "TypeError"
    ELSE ""

\* lines 247-253: the check of the first spectrum of a later file against
\* the binning of the run; "raise" of a string is itself a TypeError
NextBinning(run, c) ==
    IF c.raised # "" THEN c.raised
    ELSE IF c.linear_binning # run.linear_binning \/ c.delta_lam # run.delta_lam
    THEN "TypeError"
    ELSE ""

\* lines 222-253: the check made on the first spectrum of the file with
\* index file_index, given what check_linear_binning returned for it, and
\* the binning of the run after it
FileBinning(delta, a, index, run, c) ==
    IF index = 0 THEN FirstBinning(delta, a, c)
    ELSE [raised          |-> NextBinning(run, c),
          linear_binning  |-> run.linear_binning,
          delta_lam       |-> run.delta_lam,
          reso_correction |-> run.reso_correction]

\* lines 222-253 for the spectra read from one file; deltas[0] of a file
\* without spectra raises
CheckFile(read, a, index, run) ==
    IF read = <<>>
    THEN [raised |-> "IndexError", linear_binning |-> run.linear_binning,
          delta_lam |-> run.delta_lam, reso_correction |-> run.reso_correction]
    ELSE FileBinning(read[1], a, index, run, check_linear_binning(read[1].log_lambda))

\* what the closure process_file reads from main
Run == [linear_binning |-> linear_binning, delta_lam |-> delta_lam,
        reso_correction |-> reso_correction]

\* a task that has not run
Pending ==
    [returned |-> "pending", raised |-> "", segmented |-> FALSE,
     first_pixel_index |-> 0, num_parts |-> 0, trace |-> <<>>,
     pk_list |-> <<>>, fiberid |-> 0]

\* the estimators' values for the parts of a spectrum whose first pixel is first
EstFrom(delta, a, first) ==
    IF fails_cuts(delta, a) \/ too_short(delta, a, first) THEN {<<>>}
    ELSE [1..num_parts(delta, a, first) -> EstChoices]

\* the estimators' values for the parts of one spectrum
EstFor(delta, a) == EstFrom(delta, a, first_pixel_index(delta, a))

\* lines 441-444: the first record at or after <<i, j>> in the gathered
\* results, <<Len + 1, 1>> when there is none
RECURSIVE NextRecord(_, _, _)
NextRecord(gathered, i, j) ==
    IF i > Len(gathered) THEN <<i, 1>>
    ELSE IF gathered[i].returned = "list" /\ j <= Len(gathered[i].pk_list)
    THEN <<i, j>>
    ELSE NextRecord(gathered, i + 1, 1)

\* the header written with the metadata of the first spectrum of the file
Row_first_delta(delta, rec, index) ==
    [file    |-> index,
     header  |-> [FIBER |-> deltas[1].fiberid, MEANZ |-> rec.mean_z,
                  MEANRESO |-> deltas[1].mean_reso, MEANSNR |-> deltas[1].mean_snr,
                  NBMASKPIX |-> rec.num_masked_pixels],
     cols    |-> [k |-> rec.k, Pk_raw |-> rec.pk_raw, Pk_noise |-> rec.pk_noise,
                  Pk_diff |-> rec.pk_diff, cor_reso |-> rec.correction_reso,
                  Pk |-> rec.pk],
     part_index |-> rec.part_index,
     computed_from |-> rec.fiberid]

\* lines 448-514: the header and the columns written for one record
Row(delta, rec, index) ==
    [file    |-> index,
     header  |-> [FIBER |-> delta.fiberid, MEANZ |-> rec.mean_z,
                  MEANRESO |-> delta.mean_reso, MEANSNR |-> delta.mean_snr,
                  NBMASKPIX |-> rec.num_masked_pixels],
     cols    |-> [k |-> rec.k, Pk_raw |-> rec.pk_raw, Pk_noise |-> rec.pk_noise,
                  Pk_diff |-> rec.pk_diff, cor_reso |-> rec.correction_reso,
                  Pk |-> rec.pk],
     part_index |-> rec.part_index,
     computed_from |-> rec.fiberid]

-----------------------------------------------------------------------------
(* The inputs the model draws. *)

\* --SNR-min and --reso-max: the defaults of lines 93 and 99
SNRMin == 2
ResoMax == 85

\* the options of a run; every field is an option of lines 66-184.
\* --nb-pixel-min and --nb-pixel-masked-max are set to 2 and 1, values on the
\* scale of the model's spectra.
Args(out_format, lambda_obs_min, nb_part, no_apply_filling, noise_estimate, num_processors, disable_reso_matrix, force_output_in_velocity) ==
    [out_format               |-> out_format,
     SNR_min                  |-> SNRMin,
     reso_max                 |-> ResoMax,
     lambda_obs_min           |-> lambda_obs_min,
     nb_part                  |-> nb_part,
     nb_pixel_min             |-> 2,
     nb_pixel_masked_max      |-> 1,
     no_apply_filling         |-> no_apply_filling,
     noise_estimate           |-> noise_estimate,
     num_processors           |-> num_processors,
     disable_reso_matrix      |-> disable_reso_matrix,
     force_output_in_velocity |-> force_output_in_velocity]

\* --lambda-obs-min: below every pixel, equal to the first pixel of every
\* grid (10 Angstrom), above every pixel
LambdaObsMins == {0, 100000000, 200000000}

\* mean_snr and mean_reso of a spectrum: at the cut and on its passing side
MeanSnrs == {SNRMin, SNRMin + 1}
MeanResos == {ResoMax - 1, ResoMax}

\* the first n pixels of a grid, none of them masked
FullGrid(family, n, mean_snr, resolution_matrix) ==
    Delta(family, [i \in 1..n |-> i], [i \in 1..n |-> 1], mean_snr,
          ResoMax - 1, resolution_matrix, 0)

\* the spectra check_linear_binning is tried on: any pixels of any grid
BinningDeltas ==
    { Delta(f, SeqOfSet(S), [i \in 1..Cardinality(S) |-> 1], SNRMin + 1,
            ResoMax - 1, rm, 0) :
        f \in Families, S \in (SUBSET (1..GridLen)) \ {{}}, rm \in {"None", "R"} }

\* the spectra process_file is tried on: a whole grid with any of its
\* pixels masked (ivar 0), or any pixels of a grid with none masked
ProcessDeltas(f, rm) ==
    { Delta(f, SeqOfSet(S), iv, snr, reso, rm, 2) :
        S \in {1..GridLen}, iv \in [1..GridLen -> {0, 1}],
        snr \in MeanSnrs, reso \in MeanResos }
    \cup
    { Delta(f, SeqOfSet(S), [i \in 1..Cardinality(S) |-> 1], snr, reso, rm, 2) :
        S \in (SUBSET (1..GridLen)) \ {{}}, snr \in MeanSnrs, reso \in MeanResos }

\* the spectra of the input files of a run: whole grids, one of them with a
\* low SNR, one with its first two pixels masked, two linear ones with a
\* resolution matrix, one of them with a low SNR, and one with a missing
\* pixel that no branch of the classifier accepts
MainDeltas ==
    { FullGrid("LogA", GridLen, SNRMin + 1, "None"),
      FullGrid("LogA", GridLen, SNRMin, "None"),
      [FullGrid("LogA", GridLen, SNRMin + 1, "None") EXCEPT
          !.ivar = [i \in 1..GridLen |-> IF i <= 2 THEN 0 ELSE 1]],
      FullGrid("LogB", GridLen, SNRMin + 1, "None"),
      FullGrid("LinA", GridLen, SNRMin + 1, "R"),
      FullGrid("LinA", GridLen, SNRMin, "R"),
      Delta("LogA", <<1, 2, 4>>, <<1, 1, 1>>, SNRMin + 1, ResoMax - 1, "None", 0) }

-----------------------------------------------------------------------------
(* The DLA masker: py/picca/delta_extraction/mask.py and                   *)
(* py/picca/delta_extraction/masks/dla_mask.py.                            *)
(*                                                                         *)
(* masks/dla_mask.py imports accepted_options and defaults from mask.py    *)
(* (line 14), names mask.py does not define: the import of the module      *)
(* fails as the two files stand.  The classes are modelled as written,     *)
(* for a mask.py that also carries these two names.                        *)

\* pixels of a forest handed to the masker
ForestLen == 3
\* calls of apply_mask on one forest
MaxCalls == 2

\* the catalogue rows of the DLACAT extension, in file order: two absorbers
\* on line of sight 1, with one of line of sight 2 between them; redshifts
\* are integers, column densities log10(cm^-2)
CatalogueRows ==
    << [THING_ID |-> 1, Z_DLA |-> 1, Z |-> 1, NHI |-> 20],
       [THING_ID |-> 2, Z_DLA |-> 3, Z |-> 3, NHI |-> 21],
       [THING_ID |-> 1, Z_DLA |-> 3, Z |-> 3, NHI |-> 21] >>

\* the catalogue files: the extensions of each and the columns of its
\* DLACAT extension
CatalogueFiles ==
    [dla     |-> [extnames |-> {"DLACAT"}, colnames |-> {"THING_ID", "Z_DLA", "NHI"}],
     z       |-> [extnames |-> {"DLACAT"}, colnames |-> {"THING_ID", "Z", "NHI"}],
     both    |-> [extnames |-> {"DLACAT"}, colnames |-> {"THING_ID", "Z_DLA", "Z", "NHI"}],
     no_ext  |-> [extnames |-> {"CAT"},    colnames |-> {"THING_ID", "Z_DLA", "NHI"}],
     no_z    |-> [extnames |-> {"DLACAT"}, colnames |-> {"THING_ID", "NHI"}],
     no_id   |-> [extnames |-> {"DLACAT"}, colnames |-> {"Z_DLA", "NHI"}],
     no_nhi  |-> [extnames |-> {"DLACAT"}, colnames |-> {"THING_ID", "Z"}]]

\* the exclusion-range files: rows of (type, wave_min, wave_max, frame),
\* wavelengths in 1e-7 AA; the file "missing" cannot be read
MaskFiles ==
    [ranges |-> << [type |-> "lya", wave_min |-> 50000000, wave_max |-> 52400000, frame |-> "RF_DLA"] >>,
     mixed  |-> << [type |-> "sky", wave_min |-> 100000000, wave_max |-> 110000000, frame |-> "OBS"],
                   [type |-> "lya", wave_min |-> 50000000, wave_max |-> 52400000, frame |-> "RF_DLA"] >>]

\* a rational transmission; dla mask limit: the default of line 24 and a
\* second limit that is one of the values a profile takes
DefaultLimit == Rat(4, 5)
Limits == {DefaultLimit, Rat(17, 20)}

\* the values dla_profile (lines 33-50) takes at a pixel: tau_lya and tau_lyb
\* are Voigt profiles of scipy, not computed here
TransmissionChoices == {Rat(1, 2), Rat(17, 20), Rat(1, 1)}

\* the section of options DlaMask is constructed from; "None" is an option
\* that is not set
Config(filename, los_id_name, dla_mask_limit, mask_file, keep_masked_pixels) ==
    [filename           |-> filename,
     los_id_name        |-> los_id_name,
     dla_mask_limit     |-> dla_mask_limit,
     mask_file          |-> mask_file,
     keep_masked_pixels |-> keep_masked_pixels]

\* bool(config) of a configparser.SectionProxy: its number of options is not 0
Truthy(config) ==
    \/ config.filename # "None"
    \/ config.los_id_name # "None"
    \/ ~IsNaN(config.dla_mask_limit)
    \/ config.mask_file # "None"
    \/ config.keep_masked_pixels # "None"

\* mask.py lines 40-47: Mask.__init__(keep_masked_pixels)
Mask__init__(keep_masked_pixels) ==
    IF keep_masked_pixels THEN "_set_ivar_to_zero" ELSE "_remove_pixels"

\* dla_mask.py line 182: super().__init__(config), the section of options
\* itself is the argument keep_masked_pixels of Mask.__init__
Masker(config) ==
    Mask__init__(Truthy(config))

\* no instance
NoMask ==
    [built |-> FALSE, masker |-> "", los_ids |-> <<>>, dla_mask_limit |-> NaN,
     mask |-> [kind |-> "None", rows |-> <<>>]]

\* the pairs of the rows of one line of sight, the last row first
RECURSIVE Group_reversed(_, _, _)
Group_reversed(rows, z_colname, los_id) ==
    IF rows = <<>> THEN <<>>
    ELSE Group_reversed(Tail(rows), z_colname, los_id)
         \o (IF Head(rows).THING_ID = los_id
             THEN <<[z_abs |-> Head(rows)[z_colname], nhi |-> Head(rows).NHI]>>
             ELSE <<>>)

\* lines 222-223: the (z_abs, nhi) pairs of the rows of one line of sight,
\* in the order of the rows
RECURSIVE Group(_, _, _)
Group(rows, z_colname, los_id) ==
    IF rows = <<>> THEN <<>>
    ELSE (IF Head(rows).THING_ID = los_id
          THEN <<[z_abs |-> Head(rows)[z_colname], nhi |-> Head(rows).NHI]>>
          ELSE <<>>)
         \o Group(Tail(rows), z_colname, los_id)

\* lines 219-223: self.los_ids, one list per line of sight of the catalogue
LosIds(rows, z_colname) ==
    [los_id \in {rows[i].THING_ID : i \in 1..Len(rows)} |-> Group(rows, z_colname, los_id)]

\* lines 236-250: self.mask.  With a mask file, line 244 keeps the column of
\* booleans frame == 'RF_DLA', one per row of the file, not the rows
LoadMask(config) ==
    IF config.mask_file = "None"
    THEN [raised |-> "", mask |-> [kind |-> "Table", rows |-> <<>>]]
    ELSE IF config.mask_file \notin DOMAIN MaskFiles
    THEN [raised |-> "MaskError", mask |-> NoMask.mask]
    ELSE [raised |-> "",
          mask |-> [kind |-> "Column",
                    rows |-> [i \in 1..Len(MaskFiles[config.mask_file]) |->
                                 MaskFiles[config.mask_file][i].frame = "RF_DLA"]]]

\* the outcome of a constructor: the exception raised, or the instance
Raised(exception) == [raised |-> exception, self |-> NoMask]

\* lines 219-250, the catalogue columns read
InitFromColumns(config, z_colname, loaded) ==
    IF IsNaN(config.dla_mask_limit) THEN Raised("MaskError")
    ELSE IF loaded.raised # "" THEN Raised(loaded.raised)
    ELSE [raised |-> "",
          self   |-> [built          |-> TRUE,
                      masker         |-> Masker(config),
                      los_ids        |-> LosIds(CatalogueRows, z_colname),
                      dla_mask_limit |-> config.dla_mask_limit,
                      mask           |-> loaded.mask]]

\* lines 212-217: the handler of ValueError joins columns_list, a name
\* bound at line 205 only
HandleValueError(columns_list_bound) ==
    IF columns_list_bound THEN "MaskError" ELSE "UnboundLocalError"

\* lines 196-217: the catalogue is read; fitsio raises OSError for an
\* extension that is not in the file and ValueError for a column that is
\* not in the extension; pop (line 204) takes either name when both are there
ReadCatalogue(config, file, z_colname) ==
    IF "DLACAT" \notin file.extnames THEN Raised("MaskError")
    ELSE IF file.colnames \cap {"Z_DLA", "Z"} = {}
    THEN Raised(HandleValueError(FALSE))
    ELSE IF ~({config.los_id_name, z_colname, "NHI"} \subseteq file.colnames)
    THEN Raised(HandleValueError(TRUE))
    ELSE InitFromColumns(config, z_colname, LoadMask(config))

\* lines 164-250: DlaMask.__init__(config); z_colname is the name pop returns
DlaMask__init__(config, z_colname) ==
    IF config.filename = "None" \/ config.los_id_name = "None"
    THEN Raised("MaskError")
    ELSE IF config.filename \notin DOMAIN CatalogueFiles
    THEN Raised("MaskError")
    ELSE ReadCatalogue(config, CatalogueFiles[config.filename], z_colname)

\* the names line 204 can pop for the catalogue of a section
ZColnames(config) ==
    IF config.filename \in DOMAIN CatalogueFiles
       /\ CatalogueFiles[config.filename].colnames \cap {"Z_DLA", "Z"} # {}
    THEN CatalogueFiles[config.filename].colnames \cap {"Z_DLA", "Z"}
    ELSE {"Z_DLA"}

\* A Forest as the masker reads and writes it: the line of sight, and per
\* pixel log_lambda, flux (here the index of the pixel in its grid), ivar,
\* transmission_correction and the column of the resolution matrix
Forest(los_id, n) ==
    [los_id                  |-> los_id,
     log_lambda              |-> [i \in 1..n |-> PixelGrid.LogWide[i]],
     flux                    |-> [i \in 1..n |-> i],
     ivar                    |-> [i \in 1..n |-> i + 1],
     transmission_correction |-> [i \in 1..n |-> Rat(1, 1)],
     resolution_matrix       |-> [i \in 1..n |-> i]]

\* Forest.mask_fields: the arrays a mask is applied to
mask_fields ==
    <<"flux", "ivar", "transmission_correction", "log_lambda", "resolution_matrix">>

NoForest == Forest(0, 0)

\* mask.py lines 6-10: the pixels (the columns, for the resolution matrix)
\* where w holds are kept
_remove_pixels(forest, param, w) ==
    [forest EXCEPT ![param] = BoolIndex(forest[param], w)]

\* ivar set to zero where w holds
_set_ivar_to_zero_where_kept(forest, param, w) ==
    IF param = "ivar"
    THEN [forest EXCEPT !.ivar = [i \in 1..Len(forest.ivar) |->
                                      IF w[i] THEN 0 ELSE forest.ivar[i]]]
    ELSE forest

\* mask.py lines 12-14
_set_ivar_to_zero(forest, param, w) ==
    IF param = "ivar"
    THEN [forest EXCEPT !.ivar = [i \in 1..Len(forest.ivar) |->
                                      IF w[i] THEN forest.ivar[i] ELSE 0]]
    ELSE forest

\* lines 285-286: the masker of the instance on every field, in order
RECURSIVE MaskFields(_, _, _, _)
MaskFields(forest, masker, fields, w) ==
    IF fields = <<>> THEN forest
    ELSE MaskFields(IF masker = "_set_ivar_to_zero"
                    THEN _set_ivar_to_zero(forest, Head(fields), w)
                    ELSE _remove_pixels(forest, Head(fields), w),
                    masker, Tail(fields), w)

\* lines 269-272: the product of the profiles of the absorbers at one pixel
RECURSIVE Transmission(_, _, _)
Transmission(profile, absorbers, pixel) ==
    IF absorbers = <<>> THEN Rat(1, 1)
    ELSE RatMul(profile[Head(absorbers)][pixel],
                Transmission(profile, Tail(absorbers), pixel))

\* the absorbers of every line of sight of the catalogue for any forest
absorbers_of_any(self, los_id) ==
    [found |-> TRUE,
     list  |-> IF los_id \in DOMAIN self.los_ids THEN self.los_ids[los_id]
               ELSE self.los_ids[1]]

\* line 268: self.los_ids.get(forest.los_id)
absorbers_of(self, los_id) ==
    [found |-> los_id \in DOMAIN self.los_ids,
     list  |-> IF los_id \in DOMAIN self.los_ids THEN self.los_ids[los_id]
               ELSE <<>>]

\* lines 279-281 for one pixel, one range and one absorber: the rest-frame
\* wavelength lambda_ / (1 + z_abs) is below wave_min or above wave_max
OutsideRange(lambda_, z_abs, mask_range) ==
    \/ lambda_ < mask_range.wave_min * (1 + z_abs)
    \/ lambda_ > mask_range.wave_max * (1 + z_abs)

\* line 275: dla_transmission > self.dla_mask_limit at one pixel
AboveLimit(transmission, limit) == RatLess(limit, transmission)

\* what a call of apply_mask did: the exception raised, whether the line of
\* sight was found in the catalogue, dla_transmission, w, the forest after
Applied(raised, found, dla_transmission, w, forest) ==
    [raised |-> raised, found |-> found, dla_transmission |-> dla_transmission,
     w |-> w, forest |-> forest]

\* lines 283-286
ApplyMasking(self, forest, dla_transmission, w) ==
    Applied("", TRUE, dla_transmission, w,
            MaskFields([forest EXCEPT !.transmission_correction =
                           [i \in 1..Len(forest.transmission_correction) |->
                               RatMul(forest.transmission_correction[i],
                                      dla_transmission[i])]],
                       self.masker, mask_fields, w))

\* lines 275-281: w; the elements of a column of booleans cannot be indexed
\* by 'wave_min' (IndexError)
ApplyRanges(self, forest, lambda_, absorbers, dla_transmission) ==
    IF Len(self.mask.rows) > 0 /\ self.mask.kind = "Column"
    THEN Applied("IndexError", TRUE, dla_transmission, <<>>, forest)
    ELSE ApplyMasking(self, forest, dla_transmission,
             [i \in 1..Len(lambda_) |->
                 /\ AboveLimit(dla_transmission[i], self.dla_mask_limit)
                 /\ \A r \in 1..Len(self.mask.rows) : \A a \in 1..Len(absorbers) :
                       OutsideRange(lambda_[i], absorbers[a].z_abs, self.mask.rows[r])])

\* lines 265-286 given self.los_ids.get(forest.los_id)
ApplyFound(self, forest, got, profile) ==
    IF ~got.found THEN Applied("", FALSE, <<>>, <<>>, forest)
    ELSE ApplyRanges(self, forest, Lambda(forest.log_lambda), got.list,
             [i \in 1..Len(forest.log_lambda) |->
                 Transmission(profile, got.list, forest.flux[i])])

\* lines 252-286: DlaMask.apply_mask(forest); profile[a][p] is the value of
\* dla_profile for the absorber a at the pixel p of the grid
apply_mask(self, forest, profile) ==
    ApplyFound(self, forest, absorbers_of(self, forest.los_id), profile)

\* the absorbers of the catalogue
Absorbers ==
    {[z_abs |-> CatalogueRows[i].Z_DLA, nhi |-> CatalogueRows[i].NHI] : i \in 1..Len(CatalogueRows)}

\* the lines of sight of the forests: two of the catalogue, one that is not
ForestLosIds == {1, 2, 3}

\* the sections of options a DlaMask is constructed from: the defaults with
\* every catalogue file, and with the file "dla" every masking policy,
\* another limit, every exclusion-range file, and no filename at all
Configs ==
    { Config(f, "THING_ID", DefaultLimit, "None", "None") : f \in DOMAIN CatalogueFiles \cup {"None"} }
    \cup { Config("dla", "THING_ID", DefaultLimit, "None", k) : k \in {"True", "False"} }
    \cup { Config("dla", "THING_ID", l, "None", "None") : l \in Limits }
    \cup { Config("dla", "THING_ID", DefaultLimit, mf, "None") : mf \in DOMAIN MaskFiles \cup {"missing"} }

\* what is recorded of the last call on the masker
NoCall ==
    [call |-> "none", raised |-> "", calls |-> 0, found |-> FALSE,
     dla_transmission |-> <<>>, w |-> <<>>, before |-> NoForest]

\* no masker is in use
MaskIdle ==
    /\ dla_config = Config("None", "None", NaN, "None", "None")
    /\ dla_mask = NoMask
    /\ the_forest = NoForest
    /\ profiles = <<>>
    /\ mask_call = NoCall

-----------------------------------------------------------------------------
(* The run of main. *)

Init ==
    /\ args \in { Args(of, 0, 2, FALSE, ne, np, drm, FALSE) :
                    of \in {"fits", "ascii"},
                    ne \in {"mean_diff", "other"},
                    np \in {1, 2},
                    drm \in BOOLEAN }
    /\ pc = "loop"
    /\ file_index = 0
    /\ num_data = 0
    /\ deltas = <<>>
    /\ linear_binning = FALSE
    /\ delta_lam = 0
    /\ reso_correction = "unset"
    /\ tasks = <<>>
    /\ order = <<>>
    /\ pk_list_of_lists = <<>>
    /\ cursor = <<1, 1>>
    /\ results = "None"
    /\ opens = <<>>
    /\ out_files = <<>>
    /\ error = ""
    /\ MaskIdle

\* lines 213-257 once the file is read and its first spectrum checked
ReadAs(read, check) ==
    /\ deltas' = read
    /\ linear_binning' = check.linear_binning
    /\ delta_lam' = check.delta_lam
    /\ reso_correction' = check.reso_correction
    /\ tasks' = [i \in 1..Len(read) |-> Pending]
    /\ order' = <<>>
    /\ IF check.raised # ""
       THEN /\ pc' = "aborted"
            /\ error' = check.raised
            /\ UNCHANGED <<num_data, results, out_files>>
       ELSE /\ pc' = "process"
            /\ error' = ""
            /\ num_data' = num_data + Len(read)
            /\ results' = "None"
            /\ out_files' = Append(out_files, <<>>)

\* lines 206-257: the next input file is read and its first spectrum is
\* classified (first file) or checked against the binning of the run
ReadFile ==
    /\ pc = "loop"
    /\ \E n \in 0..(MaxSpectra - num_data) : \E ds \in [1..n -> MainDeltas] :
         ReadAs([i \in 1..n |-> [ds[i] EXCEPT !.fiberid = num_data + i]],
                CheckFile(ds, args, file_index, Run))
    /\ UNCHANGED <<args, file_index, pk_list_of_lists, cursor, opens>>
    /\ UNCHANGED maskVars

\* the write loop entered after the first spectrum of the file is processed
ProcessNext_write_early ==
    /\ pc = "process"
    /\ args.num_processors <= 1
    /\ LET i == Len(order) + 1
       IN  \E est \in EstFor(deltas[i], args) :
             LET done == process_file(deltas[i], args, Run, est)
                 all  == [tasks EXCEPT ![i] = done]
             IN  /\ tasks' = all
                 /\ order' = Append(order, i)
                 /\ IF done.returned = "raised"
                    THEN /\ pc' = "aborted"
                         /\ error' = done.raised
                         /\ UNCHANGED <<pk_list_of_lists, cursor>>
                    ELSE IF i >= 1
                    THEN /\ pc' = "write"
                         /\ pk_list_of_lists' = all
                         /\ cursor' = NextRecord(all, 1, 1)
                         /\ error' = error
                    ELSE UNCHANGED <<pc, error, pk_list_of_lists, cursor>>
    /\ UNCHANGED <<args, file_index, num_data, deltas, linear_binning, delta_lam,
                   reso_correction, results, opens, out_files>>
    /\ UNCHANGED maskVars

\* line 437: the next spectrum of the file is processed in the main process;
\* an exception of process_file ends the run
ProcessNext ==
    /\ pc = "process"
    /\ args.num_processors <= 1
    /\ LET i == Len(order) + 1
       IN  \E est \in EstFor(deltas[i], args) :
             LET done == process_file(deltas[i], args, Run, est)
                 all  == [tasks EXCEPT ![i] = done]
             IN  /\ tasks' = all
                 /\ order' = Append(order, i)
                 /\ IF done.returned = "raised"
                    THEN /\ pc' = "aborted"
                         /\ error' = done.raised
                         /\ UNCHANGED <<pk_list_of_lists, cursor>>
                    ELSE IF i = Len(deltas)
                    THEN /\ pc' = "write"
                         /\ pk_list_of_lists' = all
                         /\ cursor' = NextRecord(all, 1, 1)
                         /\ error' = error
                    ELSE UNCHANGED <<pc, error, pk_list_of_lists, cursor>>
    /\ UNCHANGED <<args, file_index, num_data, deltas, linear_binning, delta_lam,
                   reso_correction, results, opens, out_files>>
    /\ UNCHANGED maskVars

\* line 434: pool.map is given process_file, a function defined inside main
\* (line 259).  multiprocessing sends the function of a task to the workers
\* pickled by its qualified name, which a nested function does not have: the
\* call raises AttributeError ("Can't pickle local object
\* 'main.<locals>.process_file'") before any spectrum reaches a worker.
PoolMap ==
    /\ pc = "process"
    /\ args.num_processors > 1
    /\ pc' = "aborted"
    /\ error' = "AttributeError"
    /\ UNCHANGED <<args, file_index, num_data, deltas, linear_binning, delta_lam,
                   reso_correction, tasks, order, pk_list_of_lists, cursor,
                   results, opens, out_files>>
    /\ UNCHANGED maskVars

\* lines 441-531: the next record of the gathered results is written; only
\* the 'fits' format has a writer, and the output file is opened by the
\* first write of the file
WriteRecord ==
    /\ pc = "write"
    /\ cursor[1] <= Len(deltas)
    /\ LET i   == cursor[1]
           j   == cursor[2]
           row == Row(deltas[i], pk_list_of_lists[i].pk_list[j], file_index)
       IN  /\ IF args.out_format = "fits"
              THEN /\ results' = "open"
                   /\ opens' = IF results = "None" THEN Append(opens, file_index)
                               ELSE opens
                   /\ out_files' = [out_files EXCEPT ![file_index + 1] = Append(@, row)]
              ELSE UNCHANGED <<results, opens, out_files>>
           /\ cursor' = NextRecord(pk_list_of_lists, i, j + 1)
    /\ UNCHANGED <<args, pc, file_index, num_data, deltas, linear_binning,
                   delta_lam, reso_correction, tasks, order, pk_list_of_lists,
                   error>>
    /\ UNCHANGED maskVars

\* lines 533-534 and the next turn of line 206: the output file is closed
CloseFile ==
    /\ pc = "write"
    /\ cursor[1] > Len(deltas)
    /\ results' = IF args.out_format = "fits" /\ results # "None" THEN "closed"
                  ELSE results
    /\ file_index' = file_index + 1
    /\ pc' = "loop"
    /\ UNCHANGED <<args, num_data, deltas, linear_binning, delta_lam,
                   reso_correction, tasks, order, pk_list_of_lists, cursor,
                   opens, out_files, error>>
    /\ UNCHANGED maskVars

\* line 536: no input file is left
AllDone ==
    /\ pc = "loop"
    /\ pc' = "done"
    /\ UNCHANGED <<args, file_index, num_data, deltas, linear_binning, delta_lam,
                   reso_correction, tasks, order, pk_list_of_lists, cursor,
                   results, opens, out_files, error>>
    /\ UNCHANGED maskVars

Next ==
    \/ ReadFile
    \/ ProcessNext
    \/ PoolMap
    \/ WriteRecord
    \/ CloseFile
    \/ AllDone

Spec == Init /\ [][Next]_vars

-----------------------------------------------------------------------------
(* check_linear_binning on the first spectrum of the first file, for any   *)
(* pixels of any grid.                                                     *)

InitBinning ==
    /\ args \in { Args("fits", 0, 2, FALSE, "pipeline", 1, drm, FALSE) : drm \in BOOLEAN }
    /\ pc = "loop"
    /\ file_index = 0
    /\ num_data = 0
    /\ deltas = <<>>
    /\ linear_binning = FALSE
    /\ delta_lam = 0
    /\ reso_correction = "unset"
    /\ tasks = <<>>
    /\ order = <<>>
    /\ pk_list_of_lists = <<>>
    /\ cursor = <<1, 1>>
    /\ results = "None"
    /\ opens = <<>>
    /\ out_files = <<>>
    /\ error = ""
    /\ MaskIdle

\* lines 206-257 for a first file that holds one spectrum
ReadFirst ==
    /\ pc = "loop"
    /\ file_index = 0
    /\ \E d \in BinningDeltas :
         ReadAs(<<[d EXCEPT !.fiberid = 1]>>, CheckFile(<<d>>, args, 0, Run))
    /\ UNCHANGED <<args, file_index, pk_list_of_lists, cursor, opens>>
    /\ UNCHANGED maskVars

NextBinningSpec == ReadFirst

SpecBinning == InitBinning /\ [][NextBinningSpec]_vars

-----------------------------------------------------------------------------
(* process_file on the second spectrum of a first file, for any pixels and *)
(* masks and any options.  The first spectrum of the file, a whole grid    *)
(* with a mean SNR at the cut, has set the binning of the run and has been *)
(* processed.                                                              *)

ProcessFamilies == {"LinA", "LogA"}

ProcessArgs ==
    { Args("fits", lom, nbp, nofill, ne, 1, FALSE, fv) :
        lom \in LambdaObsMins, nbp \in {1, 2, 3}, nofill \in BOOLEAN,
        ne \in NoiseEstimates \cup {"other"}, fv \in BOOLEAN }

\* the state of main when the first of the two spectra read is processed
InitFrom(a, head, d, first, est) ==
    /\ args = a
    /\ pc = "process"
    /\ file_index = 0
    /\ num_data = 2
    /\ deltas = <<head, d>>
    /\ linear_binning = first.linear_binning
    /\ delta_lam = first.delta_lam
    /\ reso_correction = first.reso_correction
    /\ tasks = <<process_file(head, a, first, est), Pending>>
    /\ order = <<1>>
    /\ pk_list_of_lists = <<>>
    /\ cursor = <<1, 1>>
    /\ results = "None"
    /\ opens = <<>>
    /\ out_files = << <<>> >>
    /\ error = ""
    /\ MaskIdle

InitHead(a, head, d) ==
    \E est \in EstFor(head, a) :
        InitFrom(a, [head EXCEPT !.fiberid = 1], d,
                 CheckFile(<<head>>, a, 0, <<>>), est)

InitProcess ==
    \E f \in ProcessFamilies, rm \in {"None", "R"}, a \in ProcessArgs :
      \E d \in ProcessDeltas(f, rm) :
        InitHead(a, FullGrid(f, GridLen, SNRMin, rm), d)

NextProcess == ProcessNext

SpecProcess == InitProcess /\ [][NextProcess]_vars

-----------------------------------------------------------------------------
(* The DLA masker: an instance is constructed from a section of options,   *)
(* and apply_mask is called on a forest.                                   *)

InitMask ==
    /\ args = Args("fits", 0, 2, FALSE, "pipeline", 1, FALSE, FALSE)
    /\ pc = "mask"
    /\ file_index = 0
    /\ num_data = 0
    /\ deltas = <<>>
    /\ linear_binning = FALSE
    /\ delta_lam = 0
    /\ reso_correction = "unset"
    /\ tasks = <<>>
    /\ order = <<>>
    /\ pk_list_of_lists = <<>>
    /\ cursor = <<1, 1>>
    /\ results = "None"
    /\ opens = <<>>
    /\ out_files = <<>>
    /\ error = ""
    /\ dla_config \in Configs
    /\ dla_mask = NoMask
    /\ the_forest = NoForest
    /\ profiles = <<>>
    /\ mask_call = NoCall

\* dla_mask.py lines 164-250: DlaMask(config)
Construct ==
    /\ pc = "mask"
    /\ mask_call.call = "none"
    /\ \E z_colname \in ZColnames(dla_config) :
         LET made == DlaMask__init__(dla_config, z_colname)
         IN  /\ dla_mask' = made.self
             /\ mask_call' = [NoCall EXCEPT !.call = "__init__", !.raised = made.raised]
    /\ UNCHANGED <<dla_config, the_forest, profiles>>
    /\ UNCHANGED mainVars

\* a forest is read, on any of the lines of sight; dla_profile takes any of
\* its values at every pixel for every absorber
ReadForest ==
    /\ dla_mask.built
    /\ the_forest = NoForest
    /\ \E los_id \in ForestLosIds :
         the_forest' = Forest(los_id, ForestLen)
    /\ profiles' \in [Absorbers -> [1..ForestLen -> TransmissionChoices]]
    /\ UNCHANGED <<dla_config, dla_mask, mask_call>>
    /\ UNCHANGED mainVars

\* dla_mask.py lines 252-286: apply_mask(forest)
ApplyMask ==
    /\ the_forest # NoForest
    /\ mask_call.raised = ""
    /\ mask_call.calls < MaxCalls
    /\ LET done == apply_mask(dla_mask, the_forest, profiles)
       IN  /\ the_forest' = done.forest
           /\ mask_call' = [call             |-> "apply_mask",
                            raised           |-> done.raised,
                            calls            |-> mask_call.calls + 1,
                            found            |-> done.found,
                            dla_transmission |-> done.dla_transmission,
                            w                |-> done.w,
                            before           |-> the_forest]
    /\ UNCHANGED <<dla_config, dla_mask, profiles>>
    /\ UNCHANGED mainVars

NextMask ==
    \/ Construct
    \/ ReadForest
    \/ ApplyMask

SpecMask == InitMask /\ [][NextMask]_vars

-----------------------------------------------------------------------------
(* Properties of process_file. *)

\* the spectra of the current file on which process_file has been called
Processed == {i \in DOMAIN tasks : tasks[i].returned # "pending"}

\* the number of pixels from the first one whose wavelength exceeds
\* lambda-obs-min to the end of the spectrum, 0 when no pixel exceeds it
C1_Remaining(delta, a) ==
    LET above == {i \in DOMAIN delta.log_lambda :
                     Pow10(delta.log_lambda[i]) > a.lambda_obs_min}
    IN  IF above = {} THEN 0
        ELSE Len(delta.log_lambda) - (CHOOSE i \in above : \A j \in above : i <= j) + 1

C1_Rejects(delta, a) ==
    \/ delta.mean_snr <= a.SNR_min
    \/ delta.mean_reso >= a.reso_max
    \/ C1_Remaining(delta, a) < a.nb_pixel_min

\* C1: process_file returns None, without segmenting the spectrum and with
\* no record for the write loop, exactly when the mean SNR is <= SNR-min, or
\* the mean resolution is >= reso-max, or fewer than nb-pixel-min pixels
\* remain from the first pixel above lambda-obs-min; in every other case
\* split_forest is called.
C1_Select ==
    \A i \in Processed :
        /\ (tasks[i].returned = "None") <=> C1_Rejects(deltas[i], args)
        /\ tasks[i].returned = "None" =>
              ~tasks[i].segmented /\ tasks[i].pk_list = <<>>
        /\ ~C1_Rejects(deltas[i], args) => tasks[i].segmented

\* a spectrum that passes both cuts is rejected for having one pixel left
\* above lambda-obs-min
C1_Witness ==
    \E i \in Processed :
        /\ tasks[i].returned = "None"
        /\ deltas[i].mean_snr > args.SNR_min
        /\ deltas[i].mean_reso < args.reso_max
        /\ Len(deltas[i].log_lambda) >= args.nb_pixel_min
        /\ C1_Remaining(deltas[i], args) = 1

\* C2: the number of parts asked of split_forest is
\* min(nb-part, floor((pixels - first_pixel_index) / nb-pixel-min)): the
\* largest n <= nb-part with n * nb-pixel-min <= pixels - first_pixel_index;
\* it is at most nb-part and at least 1.
C2_NumParts ==
    \A i \in Processed :
        tasks[i].segmented =>
            LET eligible == Len(deltas[i].log_lambda) - tasks[i].first_pixel_index
                n        == tasks[i].num_parts
            IN  /\ eligible = C1_Remaining(deltas[i], args)
                /\ eligible >= args.nb_pixel_min
                /\ n * args.nb_pixel_min <= eligible
                /\ n <= args.nb_part
                /\ n = args.nb_part \/ (n + 1) * args.nb_pixel_min > eligible
                /\ n >= 1
                /\ tasks[i].returned = "list" => Len(tasks[i].trace) = n

\* the pixels allow fewer parts than nb-part asks for, after pixels below
\* lambda-obs-min were dropped
C2_Witness ==
    \E i \in Processed :
        /\ tasks[i].segmented
        /\ tasks[i].first_pixel_index > 0
        /\ tasks[i].num_parts < args.nb_part
        /\ tasks[i].returned = "list"

\* the stages after the filler
C3_LaterStages ==
    {"compute_pk_raw", "compute_pk_noise", "compute_correction_reso",
     "compute_correction_reso_matrix", "combine"}

C3_Skipped(t) == t.num_masked_pixels > args.nb_pixel_masked_max

\* C3: a segment whose masked-pixel count exceeds nb-pixel-masked-max goes
\* through no stage after the filler and appends no record, and the loop
\* goes on to the next segment; in a call that returns, every segment was
\* visited, the segments with a count at or below the maximum went through
\* the combine stage, and the records returned are theirs, in segment order.
C3_SkipSegment ==
    \A i \in Processed :
        LET trace == tasks[i].trace
            kept  == SelectSeq(trace, LAMBDA t : ~C3_Skipped(t))
        IN  /\ \A p \in DOMAIN trace :
                  C3_Skipped(trace[p]) =>
                      /\ ~trace[p].appended
                      /\ trace[p].raised = ""
                      /\ \A s \in DOMAIN trace[p].stages :
                            trace[p].stages[s] \notin C3_LaterStages
                      /\ p < tasks[i].num_parts => p + 1 \in DOMAIN trace
            /\ tasks[i].returned = "list" =>
                  /\ Len(trace) = tasks[i].num_parts
                  /\ \A p \in DOMAIN trace : trace[p].part_index = p
                  /\ \A p \in DOMAIN kept :
                        /\ kept[p].appended
                        /\ kept[p].stages[Len(kept[p].stages)] = "combine"
                  /\ tasks[i].pk_list = [p \in DOMAIN kept |-> kept[p].record]

\* the first segment is skipped, and the second, with as many masked pixels
\* as the maximum, is kept
C3_Witness ==
    \E i \in Processed :
        /\ tasks[i].returned = "list"
        /\ Len(tasks[i].trace) = 2
        /\ C3_Skipped(tasks[i].trace[1])
        /\ tasks[i].trace[2].num_masked_pixels = args.nb_pixel_masked_max
        /\ Len(tasks[i].pk_list) = 1
        /\ tasks[i].pk_list[1].part_index = 2

\* the mean of pk_diff over the wavenumbers of turn t with lo < k < 0.02
C4_MeanDiff(t, lo) ==
    LET band == {j \in DOMAIN t.k : t.k[j] > lo /\ t.k[j] < KHi}
    IN  Rat(Sum([j \in 1..Cardinality(band) |-> t.pk_diff[SeqOfSet(band)[j]]]),
            Cardinality(band))

\* the noise term of wavenumber j in turn t
C4_NoiseTerm(t, j) ==
    CASE args.noise_estimate = "pipeline"        -> Rat(t.pk_noise[j], 1)
      [] args.noise_estimate = "diff"            -> Rat(t.pk_diff[j], 1)
      [] args.noise_estimate = "rebin_diff"      -> Rat(t.pk_diff[j], 1)
      [] args.noise_estimate = "mean_diff"       -> C4_MeanDiff(t, 0)
      [] args.noise_estimate = "mean_rebin_diff" -> C4_MeanDiff(t, KLo)

\* C4: in each of the five modes every segment that reaches the combine
\* stage has pk = (pk_raw - noise term) / correction_reso at every
\* wavenumber, the noise term being pk_noise in mode pipeline, pk_diff in
\* modes diff and rebin_diff, the mean of pk_diff over 0 < k < 0.02 in mode
\* mean_diff and over 0.003 < k < 0.02 in mode mean_rebin_diff; the
\* Monte-Carlo noise run is asked for in mode pipeline only.
C4_Combine ==
    \A i \in Processed : \A p \in DOMAIN tasks[i].trace :
        LET t == tasks[i].trace[p]
        IN  /\ t.run_noise <=> args.noise_estimate = "pipeline"
            /\ args.noise_estimate \in NoiseEstimates /\ t.appended =>
                  /\ Len(t.pk_combine) = Len(t.k)
                  /\ \A j \in DOMAIN t.k :
                        t.pk_combine[j] =
                            RatDiv(RatSub(Rat(t.pk_raw[j], 1), C4_NoiseTerm(t, j)),
                                   Rat(t.correction_reso[j], 1))

\* mode mean_rebin_diff on a segment with a wavenumber in (0, 0.003], which
\* the band of mean_diff holds and the band of mean_rebin_diff does not
C4_Witness ==
    \E i \in Processed : \E p \in DOMAIN tasks[i].trace :
        /\ args.noise_estimate = "mean_rebin_diff"
        /\ tasks[i].trace[p].appended
        /\ \E j \in DOMAIN tasks[i].trace[p].k :
              tasks[i].trace[p].k[j] > 0 /\ tasks[i].trace[p].k[j] <= KLo
        /\ \E j \in DOMAIN tasks[i].trace[p].k :
              tasks[i].trace[p].k[j] > KLo /\ tasks[i].trace[p].k[j] < KHi

\* the mean of pk_diff of record r over the wavenumbers with lo < k < 0.02
C5_MeanDiff(r, lo) ==
    LET band == {j \in DOMAIN r.k : RatLess(Rat(lo, 1), r.k[j])
                                    /\ RatLess(r.k[j], Rat(KHi, 1))}
    IN  Rat(Sum([j \in 1..Cardinality(band) |-> r.pk_diff[SeqOfSet(band)[j]]]),
            Cardinality(band))

\* the noise term of wavenumber j from the arrays of record r
C5_NoiseTerm(r, j) ==
    CASE args.noise_estimate = "pipeline"        -> Rat(r.pk_noise[j], 1)
      [] args.noise_estimate = "diff"            -> Rat(r.pk_diff[j], 1)
      [] args.noise_estimate = "rebin_diff"      -> Rat(r.pk_diff[j], 1)
      [] args.noise_estimate = "mean_diff"       -> C5_MeanDiff(r, 0)
      [] args.noise_estimate = "mean_rebin_diff" -> C5_MeanDiff(r, KLo)

\* the record invariant on record r
C5_Holds(r) ==
    /\ Len(r.pk) = Len(r.k)
    /\ \A j \in DOMAIN r.k :
          r.pk[j] = RatDiv(RatSub(Rat(r.pk_raw[j], 1), C5_NoiseTerm(r, j)),
                           Rat(r.correction_reso[j], 1))

\* C5: every record process_file returns has pk = (pk_raw - noise term) /
\* correction_reso at every wavenumber, computed from the k, pk_raw,
\* pk_noise, pk_diff and correction_reso of that record, in every
\* configuration, linear binning with force-output-in-velocity included.
C5_RecordInvariant ==
    \A i \in Processed : \A p \in DOMAIN tasks[i].pk_list :
        args.noise_estimate \in NoiseEstimates => C5_Holds(tasks[i].pk_list[p])

\* the record invariant in the runs that do not convert to velocity units
RecordInvariantWithoutVelocity ==
    ~(args.force_output_in_velocity /\ linear_binning) => C5_RecordInvariant

-----------------------------------------------------------------------------
(* Properties of check_linear_binning and of the run of main. *)

\* the binning of spectrum delta cannot be told or is not that of the run
C6_Mismatch(delta) ==
    \/ check_linear_binning(delta.log_lambda).raised # ""
    \/ check_linear_binning(delta.log_lambda).linear_binning # linear_binning
    \/ check_linear_binning(delta.log_lambda).delta_lam # delta_lam

\* C6 (as stated): every spectrum of every input file is checked against the
\* binning flag and the bin width of the run before it is processed, so no
\* spectrum that process_file is called on differs from them.
C6_EverySpectrumChecked ==
    \A i \in Processed : ~C6_Mismatch(deltas[i])

\* while main handles a file: the file is read and not yet closed
C6_InFile == pc \in {"process", "write", "aborted"} /\ deltas # <<>>

\* C6 (amended): the binning flag and the bin width are set from the first
\* spectrum of the first file and never change afterwards, and the first
\* spectrum of every later input file is checked against both: on a mismatch
\* the run stops with an error before any spectrum of that file is processed.
C6_FirstSpectrumChecked ==
    /\ [](C6_InFile /\ file_index >= 1 /\ C6_Mismatch(deltas[1]) =>
             /\ pc = "aborted"
             /\ error \in {"TypeError", "ValueError"}
             /\ Processed = {})
    /\ [][file_index >= 1 \/ pc # "loop" =>
             UNCHANGED <<linear_binning, delta_lam, reso_correction>>]_vars

\* a later file whose first spectrum has the flag of the run and another bin
\* width stops the run
C6_Witness ==
    /\ C6_InFile
    /\ file_index >= 1
    /\ check_linear_binning(deltas[1].log_lambda).raised = ""
    /\ check_linear_binning(deltas[1].log_lambda).linear_binning = linear_binning
    /\ check_linear_binning(deltas[1].log_lambda).delta_lam # delta_lam
    /\ pc = "aborted"
    /\ Processed = {}

\* strictly increasing and uniformly spaced, with at least two pixels and a
\* spacing below 0.01
C7_UniformLog(log_lambda) ==
    /\ Len(log_lambda) >= 2
    /\ \A i \in 1..(Len(log_lambda) - 1) :
          /\ log_lambda[i + 1] - log_lambda[i] = log_lambda[2] - log_lambda[1]
          /\ log_lambda[i + 1] - log_lambda[i] > 0
          /\ log_lambda[i + 1] - log_lambda[i] < MaxLogStep

\* 20 * (the 25th percentile - the 5th percentile) of the differences of the
\* wavelengths
C7_LambdaGap(log_lambda) ==
    np_percentile(np_diff(Lambda(log_lambda)), 25)
        - np_percentile(np_diff(Lambda(log_lambda)), 5)

\* C7 (as stated): a strictly increasing, uniformly spaced log-wavelength
\* array of length >= 2 with spacing < 0.01 is classified linear_binning =
\* False.
C7_UniformLogIsLog ==
    pc # "loop" /\ C7_UniformLog(deltas[1].log_lambda) =>
        error = "" /\ linear_binning = FALSE

\* C7 (amended): a strictly increasing, uniformly spaced log-wavelength
\* array of length >= 2 with spacing < 0.01, the 25th and the 5th percentile
\* of whose wavelength differences lie at least 1e-6 Angstrom apart, is
\* classified linear_binning = False with the spacing as bin width.
C7_UniformLogWithGapIsLog ==
    /\ pc # "loop"
    /\ C7_UniformLog(deltas[1].log_lambda)
    /\ C7_LambdaGap(deltas[1].log_lambda) >= 20 * GapTolLambda
    => /\ error = ""
       /\ linear_binning = FALSE
       /\ delta_lam = 2 * (deltas[1].log_lambda[2] - deltas[1].log_lambda[1])

\* a uniform log-wavelength array of three pixels or more is classified
C7_Witness ==
    /\ pc = "process"
    /\ Len(deltas[1].log_lambda) >= 3
    /\ C7_UniformLog(deltas[1].log_lambda)
    /\ C7_LambdaGap(deltas[1].log_lambda) >= 20 * GapTolLambda
    /\ linear_binning = FALSE

C9_OneRecordPerSegment ==
    pc = "write" /\ cursor[1] > Len(deltas) =>
        /\ \A i \in DOMAIN tasks : \A p \in DOMAIN tasks[i].trace :
              Cardinality({r \in DOMAIN out_files[file_index + 1] :
                             /\ out_files[file_index + 1][r].computed_from = deltas[i].fiberid
                             /\ out_files[file_index + 1][r].part_index = p})
                  = IF tasks[i].trace[p].appended THEN 1 ELSE 0
        /\ \A r \in DOMAIN out_files[file_index + 1] :
              \E i \in DOMAIN tasks :
                  /\ out_files[file_index + 1][r].computed_from = deltas[i].fiberid
                  /\ out_files[file_index + 1][r].part_index \in DOMAIN tasks[i].trace

\* one record per kept segment in output format 'fits'
OneRecordPerSegmentFits ==
    args.out_format = "fits" => C9_OneRecordPerSegment

\* C10: with a noise estimate outside the five the run stops at startup: no
\* input file is read and no spectrum is processed.
C10_InvalidNoiseEstimateFatal ==
    args.noise_estimate \notin NoiseEstimates =>
        /\ deltas = <<>>
        /\ num_data = 0
        /\ Processed = {}
        /\ pc # "done"
-----------------------------------------------------------------------------
(* Properties of the DLA masker. *)

\* the line of sight of the forest is in no row of the catalogue
NotCatalogued(los_id) ==
    \A i \in 1..Len(CatalogueRows) : CatalogueRows[i].THING_ID # los_id

\* C11: apply_mask on a forest whose line of sight has no catalogued
\* absorber returns normally and is the identity: every masked field of
\* the forest, ivar and the array lengths among them, and its
\* transmission_correction are what they were before the call.
C11_NoAbsorberIdentity ==
    (mask_call.call = "apply_mask" /\ NotCatalogued(the_forest.los_id))
        => /\ mask_call.raised = ""
           /\ the_forest = mask_call.before

\* apply_mask has been called on a forest of a line of sight that is not
\* catalogued, where a profile of the catalogue is below the limit
C11_Witness ==
    /\ mask_call.call = "apply_mask"
    /\ NotCatalogued(the_forest.los_id)
    /\ \E a \in Absorbers : \E p \in 1..ForestLen :
          RatLess(profiles[a][p], dla_mask.dla_mask_limit)

\* apply_mask has returned from its first call on a forest with catalogued
\* absorbers
MaskedOnce ==
    /\ mask_call.call = "apply_mask"
    /\ mask_call.calls = 1
    /\ mask_call.raised = ""
    /\ mask_call.found

\* the number of pixels the call masked
NumMasked == Cardinality({i \in 1..Len(mask_call.w) : ~mask_call.w[i]})

\* C12: the masker applies the policy chosen at construction.  With
\* keep-masked-pixels true every per-pixel array keeps its length and ivar
\* is zero at the masked pixels; with keep-masked-pixels false, or not set,
\* the masked pixels are removed: every per-pixel array, and the columns of
\* the resolution matrix, are shorter by the number of masked pixels.
C12_PolicyApplied ==
    MaskedOnce =>
        IF dla_config.keep_masked_pixels = "True"
        THEN /\ \A f \in 1..Len(mask_fields) :
                  Len(the_forest[mask_fields[f]]) = Len(mask_call.before[mask_fields[f]])
             /\ \A i \in 1..Len(mask_call.w) :
                  ~mask_call.w[i] => the_forest.ivar[i] = 0
        ELSE \A f \in 1..Len(mask_fields) :
                  Len(the_forest[mask_fields[f]]) =
                      Len(mask_call.before[mask_fields[f]]) - NumMasked

\* every DlaMask constructed zeroes ivar, whatever the option says
EveryMaskKeepsPixels ==
    dla_mask.built => dla_mask.masker = "_set_ivar_to_zero"

\* the catalogue file of the section lacks the DLACAT extension, or its
\* DLACAT extension lacks the line-of-sight column, both redshift columns,
\* or NHI
C13_BadCatalogue(config) ==
    /\ config.filename \in DOMAIN CatalogueFiles
    /\ LET file == CatalogueFiles[config.filename]
       IN  \/ "DLACAT" \notin file.extnames
           \/ config.los_id_name \notin file.colnames
           \/ file.colnames \cap {"Z_DLA", "Z"} = {}
           \/ "NHI" \notin file.colnames

\* C13: constructing a DlaMask from a catalogue file without the DLACAT
\* extension, or whose DLACAT extension lacks a required column (the
\* line-of-sight column, a redshift column Z_DLA or Z, NHI), fails with a
\* MaskError and produces no instance.
C13_BadCatalogueIsMaskError ==
    (mask_call.call = "__init__" /\ C13_BadCatalogue(dla_config))
        => /\ mask_call.raised = "MaskError"
           /\ ~dla_mask.built

\* a constructor that fails produces no instance, and a bad catalogue
\* always fails
BadCatalogueFails ==
    (mask_call.call = "__init__" /\ C13_BadCatalogue(dla_config))
        => /\ mask_call.raised \in {"MaskError", "UnboundLocalError"}
           /\ ~dla_mask.built

-----------------------------------------------------------------------------
(* Properties of the stages of a segment and of the resolution correction. *)

\* the turns of the loop over the parts that the spectra processed so far
\* went through
Turns ==
    UNION { {tasks[i].trace[j] : j \in 1..Len(tasks[i].trace)} : i \in Processed }

\* the position of a stage among the stages of a turn, 0 when it was not called
StageIndex(stages, stage) ==
    IF \E n \in 1..Len(stages) : stages[n] = stage
    THEN CHOOSE n \in 1..Len(stages) : stages[n] = stage
    ELSE 0

\* stage first was called before stage second, where both were called
Before(stages, first, second) ==
    (StageIndex(stages, first) > 0 /\ StageIndex(stages, second) > 0)
        => StageIndex(stages, first) < StageIndex(stages, second)

\* the estimators run after the filler, raw power before noise power before
\* the resolution correction, and the rebinner runs in the rebin modes only
C14_LaterOrder(t) ==
    /\ StageIndex(t.stages, "fill_masked_pixels") > 0
    /\ Before(t.stages, "fill_masked_pixels", "compute_pk_raw")
    /\ Before(t.stages, "compute_pk_raw", "compute_pk_noise")
    /\ Before(t.stages, "compute_pk_noise", "compute_correction_reso")
    /\ Before(t.stages, "compute_pk_noise", "compute_correction_reso_matrix")
    /\ (StageIndex(t.stages, "rebin_diff_noise") > 0
            <=> args.noise_estimate \in {"rebin_diff", "mean_rebin_diff"})
    /\ Before(t.stages, "rebin_diff_noise", "compute_pk_raw")

\* C14 as stated: for every segment the filler runs before the rebinner,
\* the rebinner before the raw and noise power estimation, and that before
\* the resolution correction; the rebinner runs only in the modes
\* 'rebin_diff' and 'mean_rebin_diff'.
C14_FillThenRebin ==
    \A t \in Turns :
        /\ C14_LaterOrder(t)
        /\ Before(t.stages, "fill_masked_pixels", "rebin_diff_noise")

\* C14, amended: for every segment the rebinner, called in the modes
\* 'rebin_diff' and 'mean_rebin_diff' only, runs before the filler, on the
\* arrays of the segment as the segmenter returned them; the filler runs
\* before the raw and noise power estimation, and that before the resolution
\* correction.
C14_RebinThenFill ==
    \A t \in Turns :
        /\ C14_LaterOrder(t)
        /\ Before(t.stages, "rebin_diff_noise", "fill_masked_pixels")

\* a segment went through the rebinner, the filler and every estimator
C14_Witness ==
    \E t \in Turns :
        /\ StageIndex(t.stages, "rebin_diff_noise") > 0
        /\ StageIndex(t.stages, "fill_masked_pixels") > 0
        /\ StageIndex(t.stages, "compute_correction_reso") > 0
        /\ t.appended

-----------------------------------------------------------------------------
(* Properties of check_linear_binning, continued. *)

\* the first spectrum read has been classified; it holds two pixels or more
C15_Classified == pc # "loop" /\ Len(deltas[1].log_lambda) >= 2

\* the differences of the wavelengths and of the log-wavelengths of the
\* first spectrum
C15_DiffLambda == np_diff(Lambda(deltas[1].log_lambda))
C15_DiffLogLambda == np_diff(deltas[1].log_lambda)

\* the tests of the four outcomes, on 20-fold percentiles
C15_LinearGapSmall ==
    np_percentile(C15_DiffLambda, 25) - np_percentile(C15_DiffLambda, 5) < 20 * GapTolLambda
C15_LogGapSmall ==
    np_percentile(C15_DiffLogLambda, 25) - np_percentile(C15_DiffLogLambda, 5) < 20 * GapTolLogLambda
C15_LogStepSmall == np_percentile(C15_DiffLogLambda, 5) < 20 * MaxLogStep

\* the wavelengths of the first spectrum are uniformly spaced
C15_UniformLinear ==
    \A i \in 1..Len(C15_DiffLambda) :
        C15_DiffLambda[i] = C15_DiffLambda[1] /\ C15_DiffLambda[i] > 0

\* C15: check_linear_binning decides by the first branch that matches: (1)
\* linear with the median linear difference when the gap of the linear
\* differences is below 1e-6; (2) else log with the median log difference
\* when the gap of the log differences is below 1e-6 and their 5th
\* percentile below 0.01; (3) else failure when that percentile is at least
\* 0.01; (4) else failure.  Every input has exactly one of these outcomes,
\* and uniformly spaced wavelengths have outcome (1) with their spacing as
\* bin width.
C15_FirstMatchingBranch ==
    C15_Classified =>
        /\ IF C15_LinearGapSmall
           THEN /\ error = ""
                /\ linear_binning = TRUE
                /\ delta_lam = np_median(C15_DiffLambda)
           ELSE IF C15_LogGapSmall /\ C15_LogStepSmall
           THEN /\ error = ""
                /\ linear_binning = FALSE
                /\ delta_lam = np_median(C15_DiffLogLambda)
           ELSE /\ error = "ValueError"
                /\ pc = "aborted"
        /\ C15_UniformLinear =>
              /\ error = ""
              /\ linear_binning = TRUE
              /\ delta_lam = 2 * C15_DiffLambda[1]

\* uniformly spaced wavelengths that are, over three pixels or more, also
\* uniform in log-wavelength within 1e-6 have been classified as linear
C15_Witness ==
    /\ C15_Classified
    /\ Len(deltas[1].log_lambda) >= 3
    /\ C15_UniformLinear
    /\ C15_LogGapSmall /\ C15_LogStepSmall
    /\ linear_binning = TRUE
    /\ error = ""

-----------------------------------------------------------------------------
(* Properties of the resolution correction. *)

\* the variant of the run is the one lines 226-244 select from the first
\* spectrum of the first file
C16_SelectedFromFirst ==
    (file_index = 0 /\ pc \in {"process", "write"}) =>
        reso_correction =
            IF /\ linear_binning
               /\ ~args.disable_reso_matrix
               /\ deltas[1].resolution_matrix # "None"
            THEN "matrix" ELSE "Gaussian"

\* every segment that reached the resolution correction used the variant of
\* the run
C16_SegmentsUseVariant ==
    \A t \in Turns :
        /\ StageIndex(t.stages, "compute_correction_reso_matrix") > 0
              => reso_correction = "matrix"
        /\ StageIndex(t.stages, "compute_correction_reso") > 0
              => reso_correction = "Gaussian"

\* every spectrum that was segmented has the resolution matrix a 'matrix'
\* run reads
C16_SpectraHaveData ==
    \A i \in Processed :
        (tasks[i].segmented /\ reso_correction = "matrix")
            => deltas[i].resolution_matrix # "None"

\* C16: the resolution-correction variant is selected once per run and
\* never changes afterwards; it is 'matrix' exactly when the binning is
\* linear, disable-reso-matrix is not set and a resolution matrix is
\* available, and 'Gaussian' otherwise; every segment of every spectrum of
\* every file uses that variant, and each processed spectrum has the data
\* the selected variant needs.
C16_OneVariantWithItsData ==
    /\ [](C16_SelectedFromFirst /\ C16_SegmentsUseVariant /\ C16_SpectraHaveData)
    /\ [][reso_correction # "unset" => UNCHANGED reso_correction]_vars

\* the selection and its use, without the data of the spectra
VariantSelectedOnce ==
    /\ [](C16_SelectedFromFirst /\ C16_SegmentsUseVariant)
    /\ [][reso_correction # "unset" => UNCHANGED reso_correction]_vars

\* the spectra processed in a 'matrix' run that carry a resolution matrix
\* and were handed to the segmenter
C17_MatrixSpectra ==
    {i \in Processed : /\ reso_correction = "matrix"
                       /\ tasks[i].segmented
                       /\ deltas[i].resolution_matrix # "None"}

\* C17: in the matrix variant the segmenter is given the resolution matrix
\* and returns a slice of it per segment beside its five other outputs; the
\* orchestrator accepts that output, and the correction of every segment it
\* keeps is computed by the matrix estimator, from the slice of the segment.
C17_MatrixSliceUsed ==
    \A i \in C17_MatrixSpectra :
        /\ tasks[i].raised # "ValueError"
        /\ Len(tasks[i].trace) >= 1
        /\ \A p \in DOMAIN tasks[i].trace :
              ~C3_Skipped(tasks[i].trace[p]) =>
                  StageIndex(tasks[i].trace[p].stages,
                             "compute_correction_reso_matrix") > 0

\* no spectrum with a resolution matrix gets through the segmentation of a
\* 'matrix' run
MatrixRunStopsAtSegmenter ==
    \A i \in C17_MatrixSpectra :
        tasks[i].raised = "ValueError" /\ tasks[i].trace = <<>>

-----------------------------------------------------------------------------
(* Properties of the gathering and the writing of the results. *)

\* the number of records written so far, over all output files
RECURSIVE Written(_)
Written(files) ==
    IF files = <<>> THEN 0 ELSE Len(Head(files)) + Written(Tail(files))

\* every spectrum of the current file has been processed and its result is
\* in the gathered list
C18_AllGathered ==
    /\ Processed = DOMAIN tasks
    /\ pk_list_of_lists = tasks

\* C18: no record is written while a spectrum of the file is still to be
\* processed: the results of all spectra of a file are gathered first, and
\* only then written, one record at a time, by the write loop of main;
\* processing a spectrum writes nothing.
C18_WriteAfterGather ==
    /\ [](((pc \in {"process", "write"}) /\ out_files[file_index + 1] # <<>>)
             => (pc = "write" /\ C18_AllGathered))
    /\ [][Written(out_files') # Written(out_files) =>
             /\ pc = "write"
             /\ C18_AllGathered
             /\ UNCHANGED <<tasks, pk_list_of_lists>>
             /\ Written(out_files') = Written(out_files) + 1]_vars

\* records of two spectra of one file have been written
C18_Witness ==
    /\ pc = "write"
    /\ Len(deltas) = 2
    /\ \E r1, r2 \in 1..Len(out_files[file_index + 1]) :
          /\ out_files[file_index + 1][r1].header.FIBER = deltas[1].fiberid
          /\ out_files[file_index + 1][r2].header.FIBER = deltas[2].fiberid
          /\ deltas[1].fiberid # deltas[2].fiberid

\* the exceptions the check of the first spectrum of a file ends a run on
C19_FileCheckErrors == {"IndexError", "ValueError", "TypeError"}

\* the result of every processed spectrum is a result of process_file on
\* that spectrum under the options and the binning of the run
C19_ResultOfSpectrumAlone ==
    \A i \in Processed :
        \E est \in EstFor(deltas[i], args) :
            tasks[i] = process_file(deltas[i], args, Run, est)

\* a run ends on an exception only in the check of a file or with the
\* exception process_file raised for a spectrum of the file, whatever the
\* number of processors
C19_SameOutcomeWithPool ==
    pc = "aborted" =>
        \/ Processed = {} /\ error \in C19_FileCheckErrors
        \/ \E i \in Processed : tasks[i].returned = "raised" /\ tasks[i].raised = error

\* C19: processing is independent of scheduling.  The result of a spectrum
\* is a function of the spectrum and the run configuration only,
\* process_file does not modify its input, and the gathered results of a
\* file are the same with the worker pool as sequentially.
C19_IndependentOfScheduling ==
    /\ [](C19_ResultOfSpectrumAlone /\ C19_SameOutcomeWithPool)
    /\ [][pc = "process" => UNCHANGED deltas]_vars

\* the same, for the runs on one processor
SequentialIndependentOfScheduling ==
    /\ [](args.num_processors <= 1 =>
             (C19_ResultOfSpectrumAlone /\ C19_SameOutcomeWithPool))
    /\ [][pc = "process" => UNCHANGED deltas]_vars

-----------------------------------------------------------------------------
(* Properties of the keep-mask of the DLA masker. *)

\* the absorbers catalogued on the line of sight of the forest
C20_Absorbers == Group(CatalogueRows, "Z_DLA", the_forest.los_id)

\* the rest-frame exclusion ranges of the configured file, none without a file
C20_Ranges ==
    IF dla_config.mask_file \in DOMAIN MaskFiles
    THEN {MaskFiles[dla_config.mask_file][r] : r \in
             {n \in 1..Len(MaskFiles[dla_config.mask_file]) :
                 MaskFiles[dla_config.mask_file][n].frame = "RF_DLA"}}
    ELSE {}

\* the pixel p of the grid is to be kept: the product of the profiles of the
\* absorbers is above the limit, and its rest-frame wavelength is strictly
\* outside every range for every absorber
C20_Keep(p) ==
    /\ RatLess(dla_config.dla_mask_limit, Transmission(profiles, C20_Absorbers, p))
    /\ \A r \in C20_Ranges : \A a \in 1..Len(C20_Absorbers) :
          \/ Pow10(PixelGrid.LogWide[p]) < r.wave_min * (1 + C20_Absorbers[a].z_abs)
          \/ Pow10(PixelGrid.LogWide[p]) > r.wave_max * (1 + C20_Absorbers[a].z_abs)

\* apply_mask was called for the first time, on a forest with catalogued absorbers
C20_FirstCall ==
    /\ mask_call.call = "apply_mask"
    /\ mask_call.calls = 1
    /\ ~NotCatalogued(the_forest.los_id)

\* C20: for a forest with catalogued absorbers apply_mask keeps a pixel
\* exactly when the cumulative transmission, the product of dla_profile over
\* the absorbers of the line of sight, is strictly above the limit and the
\* rest-frame wavelength of the pixel is strictly outside every configured
\* exclusion range for every absorber, with an exclusion-range file and
\* without one.
C20_KeptExactly ==
    C20_FirstCall =>
        /\ mask_call.raised = ""
        /\ Len(mask_call.w) = ForestLen
        /\ \A p \in 1..ForestLen : mask_call.w[p] <=> C20_Keep(p)

\* the same for the masks constructed without an exclusion-range file
KeptExactlyWithoutFile ==
    (C20_FirstCall /\ dla_config.mask_file = "None") =>
        /\ mask_call.raised = ""
        /\ Len(mask_call.w) = ForestLen
        /\ \A p \in 1..ForestLen : mask_call.w[p] <=> C20_Keep(p)

\* with an exclusion-range file every call on a catalogued line of sight fails
WithFileApplyFails ==
    (C20_FirstCall /\ dla_config.mask_file # "None") =>
        /\ mask_call.raised = "IndexError"
        /\ the_forest = mask_call.before

-----------------------------------------------------------------------------
(* Properties of the catalogue of the DLA masker. *)

\* the rows of the catalogue on one line of sight, in catalogue order
C21_RowsOf(los_id) ==
    SelectSeq(CatalogueRows, LAMBDA row : row.THING_ID = los_id)

\* the number of pairs in the lists of the lines of sight in S
RECURSIVE C21_Size(_, _)
C21_Size(los_ids, S) ==
    IF S = {} THEN 0
    ELSE LET los_id == CHOOSE x \in S : TRUE
         IN  Len(los_ids[los_id]) + C21_Size(los_ids, S \ {los_id})

\* the map of the instance groups the rows of the catalogue
C21_Grouped ==
    dla_mask.built =>
        /\ DOMAIN dla_mask.los_ids =
              {CatalogueRows[r].THING_ID : r \in 1..Len(CatalogueRows)}
        /\ \A los_id \in DOMAIN dla_mask.los_ids :
              /\ Len(dla_mask.los_ids[los_id]) = Len(C21_RowsOf(los_id))
              /\ Len(dla_mask.los_ids[los_id]) >= 1
              /\ \A n \in 1..Len(C21_RowsOf(los_id)) :
                    /\ dla_mask.los_ids[los_id][n].z_abs = C21_RowsOf(los_id)[n].Z_DLA
                    /\ dla_mask.los_ids[los_id][n].nhi = C21_RowsOf(los_id)[n].NHI
        /\ C21_Size(dla_mask.los_ids, DOMAIN dla_mask.los_ids) = Len(CatalogueRows)

\* C21: after construction the catalogue is a map from line-of-sight id to
\* a list of (redshift, column density) pairs; every row of the catalogue is
\* in exactly one list, the list of its id, in catalogue order, so the sizes
\* of the lists sum to the number of rows and no list is empty.  apply_mask
\* only reads the map: it is unchanged after any sequence of calls.
C21_CatalogueGroupedAndReadOnly ==
    /\ []C21_Grouped
    /\ [][dla_mask.built => UNCHANGED dla_mask]_vars

\* apply_mask has been called twice on a forest of a line of sight with two
\* absorbers that are not next to each other in the catalogue, and has
\* masked a pixel
C21_Witness ==
    /\ mask_call.call = "apply_mask"
    /\ mask_call.calls = 2
    /\ mask_call.raised = ""
    /\ mask_call.found
    /\ Len(dla_mask.los_ids[the_forest.los_id]) = 2
    /\ \E p \in 1..Len(mask_call.w) : ~mask_call.w[p]

-----------------------------------------------------------------------------
(* Properties of the zero-ivar policy. *)

\* apply_mask has returned from a call on a forest with catalogued
\* absorbers, under the zero-ivar policy
C22_Masked ==
    /\ mask_call.call = "apply_mask"
    /\ mask_call.raised = ""
    /\ mask_call.found
    /\ dla_mask.masker = "_set_ivar_to_zero"

\* C22: under the zero-ivar policy apply_mask changes two things on the
\* forest only: ivar at the masked pixels, set to 0, and
\* transmission_correction, multiplied by the cumulative transmission; ivar
\* at the kept pixels and every other masked field are as before.  A second
\* call therefore leaves ivar as the first left it, and multiplies
\* transmission_correction by the cumulative transmission again.
C22_OnlyIvarAndCorrection ==
    C22_Masked =>
        /\ the_forest.los_id = mask_call.before.los_id
        /\ the_forest.flux = mask_call.before.flux
        /\ the_forest.log_lambda = mask_call.before.log_lambda
        /\ the_forest.resolution_matrix = mask_call.before.resolution_matrix
        /\ Len(the_forest.ivar) = Len(mask_call.before.ivar)
        /\ \A i \in 1..Len(the_forest.ivar) :
              the_forest.ivar[i] =
                  IF mask_call.w[i] THEN mask_call.before.ivar[i] ELSE 0
        /\ Len(the_forest.transmission_correction) =
              Len(mask_call.before.transmission_correction)
        /\ \A i \in 1..Len(the_forest.transmission_correction) :
              the_forest.transmission_correction[i] =
                  RatMul(mask_call.before.transmission_correction[i],
                         Transmission(profiles, C20_Absorbers, the_forest.flux[i]))
        /\ mask_call.calls = 2 =>
              /\ the_forest.ivar = mask_call.before.ivar
              /\ \A i \in 1..Len(the_forest.transmission_correction) :
                    the_forest.transmission_correction[i] =
                        RatMul(Transmission(profiles, C20_Absorbers, the_forest.flux[i]),
                               Transmission(profiles, C20_Absorbers, the_forest.flux[i]))

\* apply_mask has been called twice on a forest where it masks one pixel
\* and keeps another, and where the cumulative transmission is not 1
C22_Witness ==
    /\ C22_Masked
    /\ mask_call.calls = 2
    /\ \E p, q \in 1..Len(mask_call.w) :
          /\ ~mask_call.w[p] /\ the_forest.ivar[p] = 0
          /\ mask_call.w[q] /\ the_forest.ivar[q] # 0
          /\ the_forest.transmission_correction[q] # Rat(1, 1)

-----------------------------------------------------------------------------
(* Properties of the output files. *)

\* the indices of the input files read so far
C23_FilesRead == 0..(Len(out_files) - 1)

\* output file Pk1D-<f> has been created
C23_Created(f) == \E n \in DOMAIN opens : opens[n] = f

\* no output file is created twice
C23_OpenedAtMostOnce ==
    \A m, n \in DOMAIN opens : opens[m] = opens[n] => m = n

\* an output file exists exactly when a record of its input file is written,
\* so a file without a record has no output file
C23_CreatedIffRecord ==
    \A f \in C23_FilesRead : C23_Created(f) <=> out_files[f + 1] # <<>>

\* a step creates an output file only by writing the first record of the
\* input file being handled, into Pk1D-<file_index>
C23_CreatedByFirstWrite ==
    opens' # opens =>
        /\ opens' = Append(opens, file_index)
        /\ out_files[file_index + 1] = <<>>
        /\ Len(out_files'[file_index + 1]) = 1
        /\ \A f \in C23_FilesRead \ {file_index} : out_files'[f + 1] = out_files[f + 1]

\* the records of Pk1D-<f> are records of input file f
C23_NoOtherFile ==
    \A f \in C23_FilesRead : \A r \in DOMAIN out_files[f + 1] :
        out_files[f + 1][r].file = f

\* no output file is open when the next input file is read
C23_ClosedBeforeNextRead ==
    pc = "loop" => results # "open"

\* the write loop of the file has ended: every record of its spectra is in
\* Pk1D-<file_index>
C23_EveryRecordInItsFile ==
    pc = "write" /\ cursor[1] > Len(deltas) =>
        \A i \in DOMAIN pk_list_of_lists :
            pk_list_of_lists[i].returned = "list" =>
                \A j \in DOMAIN pk_list_of_lists[i].pk_list :
                    \E r \in DOMAIN out_files[file_index + 1] :
                        out_files[file_index + 1][r] =
                            Row(deltas[i], pk_list_of_lists[i].pk_list[j], file_index)

\* what the code keeps in every run: one output file per input file with a
\* written record, created by the first write and closed before the next read
C23_OpenCloseDiscipline ==
    /\ [](/\ C23_OpenedAtMostOnce
          /\ C23_CreatedIffRecord
          /\ C23_NoOtherFile
          /\ C23_ClosedBeforeNextRead)
    /\ [][C23_CreatedByFirstWrite]_vars

\* in output format 'fits' every record of a file is in its output file
C23_EveryRecordInItsFileFits ==
    args.out_format = "fits" => C23_EveryRecordInItsFile

\* C23: output file Pk1D-<i> of input file i is opened at most once, and
\* exactly when the first record of the file is written; every record of
\* input file i goes to that file and to no other; a file whose spectra
\* produce no record creates no output file; an opened output file is closed
\* before the next input file is read.
C23_OneOutputFilePerInput ==
    /\ [](/\ C23_OpenedAtMostOnce
          /\ C23_CreatedIffRecord
          /\ C23_NoOtherFile
          /\ C23_EveryRecordInItsFile
          /\ C23_ClosedBeforeNextRead)
    /\ [][C23_CreatedByFirstWrite]_vars

\* a second input file has been read after records of the first were written
\* to Pk1D-0 and the file closed
C23_SecondFileAfterClose ==
    /\ file_index = 1 /\ pc = "write"
    /\ Len(out_files[1]) >= 1 /\ opens # <<>> /\ opens[1] = 0
====
